---- MODULE Spec2Model ----
(***************************************************************************)
(* Model of the 9router request pipeline: the account loop of              *)
(* handleSingleModelChat (src/src/sse/handlers/chat.js), one account       *)
(* attempt in handleChatCore (src/open-sse/translator/helpers/             *)
(* geminiHelper.js) and the in-flight counter of                           *)
(* src/src/lib/usageDb.js.  The services that are imported by these files  *)
(* but are not part of the sources at hand (credential selection, the      *)
(* fallback policy, the bypass detector, the error helpers) are modelled   *)
(* from the specification and are marked as such where they are defined.   *)
(***************************************************************************)
EXTENDS Integers, Sequences, FiniteSets, TLC

(*************************** bounds of the model ***************************)
NumRequests == 2
NumConns == 2
MaxTicks == 1
MaxTrackCalls == 3
LongMessageLen == 101
ClockStepMs == 60000
UpstreamRetryAfterMs == 45000
MaxSaves == 3
\* Concurrent saveRequestUsage calls.
MaxSavers == 3
\* Token counts of an entry, and how often and how far one is raised.
MaxTokenCount == 2
MaxRaise == 2
MaxRaises == 2
MaxOldEntries == 2
FirstNewId == 10
SuppliedTimestamp == 7
MaxLogAttempts == 3
MaxFrames == 3
MaxSplitFrames == 2
\* Concurrent POST /api/providers requests.
MaxPosts == 2
\* Provider nodes created in one behaviour.
MaxNodes == 1
\* Messages of a request given to buildKiroPayload.
MaxMessages == 3
\* Constructions nested in a schema given to the sanitizer.
MaxSchemaDepth == 3

(**************************** program constants ****************************)
ErrorSliceLen == 100
RefreshMaxRetries == 3
CooldownNetworkMs == 10000
CooldownServerMs == 60000
CooldownAuthMs == 1800000
CooldownQuotaMs == 86400000
CooldownRateLimitCapMs == 120000
LogMaxLines == 200
MinFrameLen == 16

Reqs == 1..NumRequests
\* The connections of the one provider the requests are routed to, in
\* priority order; the one after the last is never active.
Conns == 1..(NumConns + 1)
Undef == -1
Provider == "antigravity"
Model == "gemini-2.5-pro"

Min(a, b) == IF a < b THEN a ELSE b
Max(a, b) == IF a > b THEN a ELSE b

(***************************** text values *********************************)
\* Strings that the code slices are sequences of characters.
Slice(s, n) == SubSeq(s, 1, Min(Len(s), n))

ShortMessage == <<"q", "u", "o", "t", "a">>
LongMessage == [i \in 1..LongMessageLen |-> "x"]
AbortedMessage == <<"a", "b", "o", "r", "t", "e", "d">>
NetworkMessage == <<"f", "e", "t", "c", "h">>
NoCredentialsMessage == <<"n", "o", "c", "r", "e", "d", "s">>
InvalidModelMessage == <<"i", "n", "v", "a", "l", "i", "d">>
AllUnavailableMessage == <<"a", "l", "l">>
NoText == <<>>

StatusText(status) ==
  CASE status = 400 -> "400" [] status = 401 -> "401" [] status = 403 -> "403"
    [] status = 429 -> "429" [] status = 499 -> "499" [] status = 500 -> "500"
    [] status = 502 -> "502" [] OTHER -> "200"

\* formatProviderError: the message prefixed with the provider and status.
formatProviderError(message, status) ==
  <<"[", Provider, ":", StatusText(status), "]">> \o message

(******************** in-flight counter (usageDb.js) ***********************)
\* A JS object used as a dictionary: a function whose domain is the set of
\* keys written so far; reading a missing key yields undefined (falsy).
Get(f, k) == IF k \in DOMAIN f THEN f[k] ELSE 0
Put(f, k, v) == [x \in (DOMAIN f) \cup {k} |-> IF x = k THEN v ELSE f[x]]
EmptyDict == [x \in {} |-> 0]

\* const modelKey = provider ? `${model} (${provider})` : model
ModelKey(model, provider) ==
  IF provider # "" THEN model \o " (" \o provider \o ")" ELSE model

CounterStep_NoClamp(n, started) == n + (IF started THEN 1 ELSE -1)
\* Math.max(0, counter + (started ? 1 : -1))
CounterStep(n, started) == Max(0, n + (IF started THEN 1 ELSE -1))

\* trackPendingRequest(model, provider, connectionId, started) on the
\* module-level pendingRequests = { byModel, byAccount }.
trackPendingRequest(pr, model, provider, connectionId, started) ==
  LET modelKey == ModelKey(model, provider)
      byModel == Put(pr.byModel, modelKey,
                     CounterStep(Get(pr.byModel, modelKey), started))
      acct == IF connectionId \in DOMAIN pr.byAccount
              THEN pr.byAccount[connectionId] ELSE EmptyDict
      byAccount ==
        IF connectionId # 0   \* if (connectionId)
        THEN Put(pr.byAccount, connectionId,
                 Put(acct, modelKey, CounterStep(Get(acct, modelKey), started)))
        ELSE pr.byAccount
  IN [byModel |-> byModel, byAccount |-> byAccount]

\* An observer of the calls, not part of the program: per key, the number
\* of started=true calls minus the number of started=false calls (net) and
\* the lowest value net has taken (low, at most 0).
NoCalls ==
  [net |-> [byModel |-> EmptyDict, byAccount |-> EmptyDict],
   low |-> [byModel |-> EmptyDict, byAccount |-> EmptyDict]]
CountCalls(obs, model, provider, connectionId, started) ==
  LET modelKey == ModelKey(model, provider)
      d == IF started THEN 1 ELSE -1
      netModel == Get(obs.net.byModel, modelKey) + d
      netAcct == IF connectionId \in DOMAIN obs.net.byAccount
                 THEN obs.net.byAccount[connectionId] ELSE EmptyDict
      lowAcct == IF connectionId \in DOMAIN obs.low.byAccount
                 THEN obs.low.byAccount[connectionId] ELSE EmptyDict
      netKey == Get(netAcct, modelKey) + d
  IN [net |-> [byModel |-> Put(obs.net.byModel, modelKey, netModel),
               byAccount |->
                 IF connectionId # 0
                 THEN Put(obs.net.byAccount, connectionId,
                          Put(netAcct, modelKey, netKey))
                 ELSE obs.net.byAccount],
      low |-> [byModel |-> Put(obs.low.byModel, modelKey,
                               Min(Get(obs.low.byModel, modelKey), netModel)),
               byAccount |->
                 IF connectionId # 0
                 THEN Put(obs.low.byAccount, connectionId,
                          Put(lowAcct, modelKey,
                              Min(Get(lowAcct, modelKey), netKey)))
                 ELSE obs.low.byAccount]]

(*************** credential store (services/auth.js) ***********************)
\* services/auth.js is not among the sources: selection, marking and
\* clearing follow the specification and their call sites in chat.js.
NoConn == 0

\* A connection as POST /api/providers creates it: testStatus "unknown".
CleanConnection(active) ==
  [isActive |-> active, testStatus |-> "unknown", cooldownUntil |-> 0,
   lastError |-> NoText, errorCode |-> 0, lastErrorAt |-> 0,
   accessToken |-> "initial"]

\* POST /api/providers/[id]/test: updateProviderConnection(id, { testStatus:
\* isValid ? "active" : "error", lastError: isValid ? null : error, ... })
TestedConnection(conn, isValid) ==
  [conn EXCEPT !.testStatus = IF isValid THEN "active" ELSE "error",
               !.lastError = IF isValid THEN NoText ELSE ShortMessage]

\* A connection is eligible iff isActive, excludeConnectionId # id and
\* cooldownUntil <= now.
Eligible(cs, c, exclude, t) ==
  /\ cs[c].isActive
  /\ c # exclude
  /\ cs[c].cooldownUntil <= t

\* getProviderCredentials(provider, excludeConnectionId): the eligible
\* connection of highest priority (lowest number), or none.
getProviderCredentials(cs, exclude, t) ==
  LET ok == {c \in Conns : Eligible(cs, c, exclude, t)}
  IN IF ok = {} THEN NoConn
     ELSE CHOOSE c \in ok : \A d \in ok : c <= d

\* markAccountUnavailable(connectionId, cooldownMs, error, status, provider)
markAccountUnavailable(cs, c, cooldownMs, error, status, t) ==
  [cs EXCEPT ![c] = [@ EXCEPT !.testStatus = "error",
                               !.cooldownUntil = t + cooldownMs,
                               !.lastError = error,
                               !.errorCode = status,
                               !.lastErrorAt = t]]

HasError(conn) ==
  \/ conn.testStatus = "error"
  \/ conn.cooldownUntil # 0
  \/ conn.lastError # NoText

\* clearAccountError(connectionId, currentConnection): clears the error
\* state if the connection record it is handed has one.
clearAccountError(cs, c, currentConnection) ==
  IF HasError(currentConnection)
  THEN [cs EXCEPT ![c] = [@ EXCEPT !.testStatus = "active",
                                    !.cooldownUntil = 0,
                                    !.lastError = NoText,
                                    !.errorCode = 0,
                                    !.lastErrorAt = 0]]
  ELSE cs

\* updateProviderCredentials(connectionId, { accessToken, refreshToken,
\* providerSpecificData, testStatus: "active" })
updateProviderCredentials(cs, c) ==
  [cs EXCEPT ![c] = [@ EXCEPT !.accessToken = "refreshed",
                               !.testStatus = "active"]]

(************* fallback policy (services/accountFallback.js) ***************)
\* Not among the sources: the rules are those of the specification.
\* checkFallbackError(status, errorText) -> { shouldFallback, cooldownMs }.
\* The call passes the status and the error text only: neither the
\* connection's failure count nor the result's retryAfterMs reaches it, so
\* the exponential default is taken at n = 0.
checkFallbackError(status, errorText) ==
  CASE status = 429 ->
         [shouldFallback |-> TRUE,
          cooldownMs |-> Min(2 ^ 0, CooldownRateLimitCapMs)]
    [] status \in {401, 403} ->
         [shouldFallback |-> TRUE, cooldownMs |-> CooldownAuthMs]
    [] status \in {402, 451} ->
         [shouldFallback |-> TRUE, cooldownMs |-> CooldownQuotaMs]
    [] status \in {499, 502} ->
         [shouldFallback |-> TRUE, cooldownMs |-> CooldownNetworkMs]
    [] status >= 500 ->
         [shouldFallback |-> TRUE, cooldownMs |-> CooldownServerMs]
    [] OTHER ->
         [shouldFallback |-> FALSE, cooldownMs |-> 0]

(****************** results and responses (utils/error.js) *****************)
NoResponse == [status |-> 0, kind |-> "none", error |-> NoText]
ErrorResponse(status, message) ==
  [status |-> status, kind |-> "error", error |-> message]
JsonResponse == [status |-> 200, kind |-> "json", error |-> NoText]
SseResponse == [status |-> 200, kind |-> "sse", error |-> NoText]

NoResult ==
  [success |-> FALSE, status |-> 0, error |-> NoText, retryAfterMs |-> 0,
   response |-> NoResponse]
\* createErrorResult(statusCode, message, retryAfterMs)
createErrorResult(status, message, retryAfterMs) ==
  [success |-> FALSE, status |-> status, error |-> message,
   retryAfterMs |-> retryAfterMs, response |-> ErrorResponse(status, message)]
SuccessResult(response) ==
  [success |-> TRUE, status |-> 0, error |-> NoText, retryAfterMs |-> 0,
   response |-> response]

(********************* upstream replies (the inputs) ***********************)
\* What executor.execute can do: throw (AbortError or another error) or
\* return a response with a status, an error message and, for a 429, an
\* optional retry-after time that parseUpstreamError extracts.
Reply(kind, status, message, retryAfterMs) ==
  [kind |-> kind, status |-> status, message |-> message,
   retryAfterMs |-> retryAfterMs]
NoReply == Reply("none", 0, NoText, 0)
ThrowReplies ==
  {Reply("AbortError", 0, AbortedMessage, 0), Reply("Error", 0, NetworkMessage, 0)}
OkReply == Reply("response", 200, NoText, 0)
FailReplies ==
  {Reply("response", 401, ShortMessage, 0),
   Reply("response", 403, ShortMessage, 0),
   Reply("response", 429, ShortMessage, 0),
   Reply("response", 429, ShortMessage, UpstreamRetryAfterMs),
   Reply("response", 500, LongMessage, 0),
   Reply("response", 400, ShortMessage, 0)}
Replies == ThrowReplies \cup {OkReply} \cup FailReplies
\* response.ok
Ok(reply) == reply.kind = "response" /\ reply.status >= 200 /\ reply.status <= 299

\* parseUpstreamError(providerResponse, provider)
parseUpstreamError(reply) ==
  [statusCode |-> reply.status, message |-> reply.message,
   retryAfterMs |-> reply.retryAfterMs]

\* What executor.refreshCredentials can return: null, or a token record
\* (default.js: that of a 2xx answer, whose accessToken is undefined when
\* the answer carries none); the record may carry a copilotToken.
RefreshResults ==
  {[isNull |-> TRUE, accessToken |-> FALSE, copilotToken |-> FALSE],
   [isNull |-> FALSE, accessToken |-> TRUE, copilotToken |-> FALSE],
   [isNull |-> FALSE, accessToken |-> FALSE, copilotToken |-> TRUE],
   [isNull |-> FALSE, accessToken |-> FALSE, copilotToken |-> FALSE]}
NoCredentials == [isNull |-> TRUE, accessToken |-> FALSE, copilotToken |-> FALSE]

\* newCredentials?.accessToken || newCredentials?.copilotToken
RefreshSucceeded_AnyAnswer(newCredentials) == ~newCredentials.isNull
RefreshSucceeded(newCredentials) ==
  /\ ~newCredentials.isNull
  /\ (newCredentials.accessToken \/ newCredentials.copilotToken)

\* error.name === "AbortError" ? 499 : 502
ExecuteErrorStatus_Always502(name) == 502
ExecuteErrorStatus(name) == IF name = "AbortError" THEN 499 ELSE 502

(************ usage of a non-streaming body (geminiHelper.js) **************)
OrZero(x) == IF x = Undef THEN 0 ELSE x
NoUsage ==
  [isNull |-> TRUE, prompt_tokens |-> 0, completion_tokens |-> 0,
   cached_tokens |-> Undef, reasoning_tokens |-> Undef,
   cache_read_input_tokens |-> Undef, cache_creation_input_tokens |-> Undef]
Usage(p, c) ==
  [NoUsage EXCEPT !.isNull = FALSE, !.prompt_tokens = p, !.completion_tokens = c]
\* responseBody.usage; cached_tokens and reasoning_tokens stand for
\* prompt_tokens_details?.cached_tokens and
\* completion_tokens_details?.reasoning_tokens.
NoFields ==
  [present |-> FALSE, prompt_tokens |-> Undef, completion_tokens |-> Undef,
   cached_tokens |-> Undef, reasoning_tokens |-> Undef,
   input_tokens |-> Undef, output_tokens |-> Undef,
   cache_read_input_tokens |-> Undef, cache_creation_input_tokens |-> Undef]
NoMetadata ==
  [present |-> FALSE, promptTokenCount |-> Undef, candidatesTokenCount |-> Undef,
   thoughtsTokenCount |-> Undef]
\* The JSON bodies an upstream can answer with: OpenAI, Claude and Gemini
\* shaped usage, and a body without usage.
OpenAIBody ==
  [usage |-> [NoFields EXCEPT !.present = TRUE, !.prompt_tokens = 7,
                              !.completion_tokens = 3, !.cached_tokens = 2,
                              !.reasoning_tokens = 1],
   usageMetadata |-> NoMetadata]
ClaudeBody ==
  [usage |-> [NoFields EXCEPT !.present = TRUE, !.input_tokens = 7,
                              !.output_tokens = 3,
                              !.cache_read_input_tokens = 2,
                              !.cache_creation_input_tokens = 1],
   usageMetadata |-> NoMetadata]
GeminiBody ==
  [usage |-> NoFields,
   usageMetadata |-> [present |-> TRUE, promptTokenCount |-> 7,
                      candidatesTokenCount |-> 3, thoughtsTokenCount |-> 1]]
PlainBody == [usage |-> NoFields, usageMetadata |-> NoMetadata]
JsonBodies == {OpenAIBody, ClaudeBody, GeminiBody, PlainBody}

extractUsageFromResponse_Always(responseBody) ==
  Usage(OrZero(responseBody.usage.prompt_tokens),
        OrZero(responseBody.usage.completion_tokens))
extractUsageFromResponse(responseBody) ==
  IF responseBody.usage.present
  THEN [Usage(OrZero(responseBody.usage.prompt_tokens),
              OrZero(responseBody.usage.completion_tokens))
          EXCEPT !.cached_tokens = responseBody.usage.cached_tokens,
                 !.reasoning_tokens = responseBody.usage.reasoning_tokens]
  ELSE IF responseBody.usage.present
          /\ (responseBody.usage.input_tokens # Undef
              \/ responseBody.usage.output_tokens # Undef)
  THEN [Usage(OrZero(responseBody.usage.input_tokens),
              OrZero(responseBody.usage.output_tokens))
          EXCEPT !.cache_read_input_tokens =
                   responseBody.usage.cache_read_input_tokens,
                 !.cache_creation_input_tokens =
                   responseBody.usage.cache_creation_input_tokens]
  ELSE IF responseBody.usageMetadata.present
  THEN [Usage(OrZero(responseBody.usageMetadata.promptTokenCount),
              OrZero(responseBody.usageMetadata.candidatesTokenCount))
          EXCEPT !.reasoning_tokens = responseBody.usageMetadata.thoughtsTokenCount]
  ELSE NoUsage

(******************************* state *************************************)
VARIABLES
  now,                  \* Date.now(), in ms
  connections,          \* the stored provider connections
  pendingRequests,      \* usageDb.js: { byModel, byAccount }
  netCalls,             \* observer: started minus finished calls per key, and its lowest
  trackCalls,           \* observer: number of direct trackPendingRequest calls
  markedUntil,          \* observer: deadline of the latest mark, 0 once cleared
  markDeadline,         \* observer: latest deadline of any mark so far
  pc,                   \* where each request is
  body,                 \* the request: stream flag, bypass pattern, messages
  excludeConnectionId,  \* handleSingleModelChat local
  lastError,            \* handleSingleModelChat local
  credentials,          \* the connection of the current attempt
  core,                 \* handleChatCore locals of the current attempt
  result,               \* what handleChatCore returned last
  response,             \* what handleSingleModelChat returned
  attempts,             \* observer: connections attempted, failures, last failure
  saves                 \* observer: saveRequestUsage calls of the request

chatVars ==
  <<now, connections, pendingRequests, netCalls, trackCalls, markedUntil,
    markDeadline, pc, body, excludeConnectionId, lastError, credentials,
    core, result, response, attempts, saves>>

storeVars == <<connections, markedUntil, markDeadline>>
counterVars == <<pendingRequests, netCalls>>

(*********************** the usage database (usageDb.js) *******************)
VARIABLES
  usageFile,            \* usage.json on disk
  dbInstance,           \* usageDb.js: the lowdb singleton, its data in memory
  usageCalls,           \* observer: number of saveRequestUsage calls so far
  lastSave,             \* observer: entry and outcome of the latest call
  costInput,            \* calculateCost: the tokens object it is given
  costPricing,          \* what getPricingForModel answers for the entry
  cost,                 \* what calculateCost returned last
  raised,               \* observer: the category raised last, and the cost before
  savers,               \* concurrent saveRequestUsage calls: where each one is
  usageLoad             \* observer: reads of usage.json, and its first history

costVars == <<costInput, costPricing, cost, raised>>
saverVars == <<savers, usageLoad>>
usageVars ==
  <<usageFile, dbInstance, usageCalls, lastSave, costVars, saverVars>>

\* const defaultData = { history: [] }
defaultData == [isArray |-> TRUE, history |-> <<>>]
\* let dbInstance = null
NoDb == [exists |-> FALSE, data |-> defaultData]
NoFile == [kind |-> "missing", data |-> defaultData]
NoSave == [outcome |-> "none", returned |-> TRUE, entry |-> [id |-> 0, timestamp |-> 0]]

\* The five token categories, and the counts of a tokens object.
Categories == {"prompt", "cached", "completion", "reasoning", "cache_creation"}
NoCounts == [c \in Categories |-> 0]
\* given: tokens, provider and model are all there.
NoCostInput == [given |-> FALSE, names |-> "openai", counts |-> NoCounts]
NoPricing ==
  [kind |-> "none", input |-> 0, output |-> 0, cached |-> 0, reasoning |-> 0,
   cache_creation |-> 0]
NoCost == [called |-> FALSE, value |-> 0]
NoRaise == [category |-> "none", by |-> 0, before |-> 0, count |-> 0]

Savers == 1..MaxSavers
NoSaver == [pc |-> "idle", read |-> NoFile]
NoLoad == [reads |-> 0, before |-> <<>>]

SaversIdle ==
  /\ savers = [i \in Savers |-> NoSaver]
  /\ usageLoad = NoLoad

CostIdle ==
  /\ costInput = NoCostInput
  /\ costPricing = NoPricing
  /\ cost = NoCost
  /\ raised = NoRaise

UsageIdle ==
  /\ usageFile = NoFile
  /\ dbInstance = NoDb
  /\ usageCalls = 0
  /\ lastSave = NoSave
  /\ CostIdle
  /\ SaversIdle

(***************************** log.txt (usageDb.js) ************************)
VARIABLES
  logFile,              \* log.txt on disk, a sequence of lines
  appendCalls,          \* appendRequestLog calls suspended at their awaits
  logReq,               \* where each logging request is, and its attempt
  appended              \* observer: every line written so far, in order

logVars == <<logFile, appendCalls, logReq, appended>>

LogLine(req, attempt, status) == [req |-> req, attempt |-> attempt, status |-> status]
\* Lines of requests that ended before the ones observed.
OldLines(n) == [i \in 1..n |-> LogLine(0, i, "200 OK")]
NoLogReq == [pc |-> "core", attempt |-> 0]

LogIdle ==
  /\ logFile = <<>>
  /\ appendCalls = {}
  /\ logReq = [r \in Reqs |-> NoLogReq]
  /\ appended = <<>>

(************ KiroExecutor.transformEventStreamToSSE (geminiHelper.js) *****)
VARIABLES
  upstream,             \* response.body: the bytes sent, and how many were read
  buffer,               \* bytes read and not yet parsed
  chunkIndex,           \* number of content and tool-call chunks emitted
  state,                \* endDetected, finishEmitted, hasToolCalls, ...
  controller,           \* the output stream: open, closed or errored
  timer,                \* the setTimeout of the end detection: unset, pending,
                        \* fired, or threw (its enqueue call was refused)
  enqueued,             \* what controller.enqueue was given, in order
  framesParsed,         \* observer: number of frames handed to parseEventFrame
  splitSeen             \* observer: some read has ended inside a frame

kiroVars ==
  <<upstream, buffer, chunkIndex, state, controller, timer, enqueued,
    framesParsed, splitSeen>>

NoBytes == [bytes |-> <<>>, read |-> 0]
\* const state = { endDetected: false, finishEmitted: false, ... }
NewState ==
  [endDetected |-> FALSE, finishEmitted |-> FALSE, hasToolCalls |-> FALSE,
   toolCallIndex |-> 0, seenToolIds |-> [id \in {} |-> 0]]

KiroIdle ==
  /\ upstream = NoBytes
  /\ buffer = <<>>
  /\ chunkIndex = 0
  /\ state = NewState
  /\ controller = "open"
  /\ timer = "unset"
  /\ enqueued = <<>>
  /\ framesParsed = 0
  /\ splitSeen = FALSE

(************* provider connections and /api/providers requests *************)
VARIABLES
  providerConnections,  \* the stored connections, in creation order
  posts,                \* per POST request: where it is and what it holds
  getResponse           \* the response of the latest GET

providerVars == <<providerConnections, posts, getResponse>>

Posts == 1..MaxPosts
\* A property that is undefined, which JSON.stringify leaves out, and null.
Undefined == "undefined"
Null == "null"
NextResponseJson(json, status) == [status |-> status, body |-> json]
NoAnswer == NextResponseJson([none |-> TRUE], 0)
NoPostBody == [provider |-> Undefined, apiKey |-> Undefined, name |-> Undefined]
NoNode == [found |-> FALSE, apiType |-> "", baseUrl |-> "", name |-> ""]
\* let providerSpecificData = null
NullData == [isNull |-> TRUE, apiType |-> "", baseUrl |-> "", nodeName |-> ""]
NoPost ==
  [pc |-> "idle", body |-> NoPostBody, node |-> NoNode,
   providerSpecificData |-> NullData, response |-> NoAnswer]

ProvidersIdle ==
  /\ providerConnections = <<>>
  /\ posts = [r \in Posts |-> NoPost]
  /\ getResponse = NoAnswer

(************** executors and provider nodes (default.js) *******************)
VARIABLES
  providerNodes,        \* the stored provider nodes, in creation order,
                        \* and the status of the last response about them
  built,                \* the URL and headers an executor built last
  refresh               \* the refreshCredentials call: where it is, its result

executorVars == <<providerNodes, built, refresh>>

NoNodes == [nodes |-> <<>>, status |-> 0]
NoRequest == [executor |-> "none"]
NoRefresh == [pc |-> "idle"]

ExecutorIdle ==
  /\ providerNodes = NoNodes
  /\ built = NoRequest
  /\ refresh = NoRefresh

(******************* request translators and sanitizers ********************)
VARIABLES
  schema,               \* the JSON Schema given to the sanitizer
  cleaned,              \* what the sanitizer returned for it
  kiroBody,             \* the OpenAI request given to buildKiroPayload
  kiroPayload           \* the payload it returned

translatorVars == <<schema, cleaned, kiroBody, kiroPayload>>

NoProperties == [k \in {} |-> 0]
NoJson == [t |-> "undefined", s |-> "", n |-> 0, a |-> <<>>, o |-> NoProperties]
NoKiroBody == [messages |-> <<>>, tools |-> <<>>]
NoPayload == [built |-> FALSE]

TranslatorIdle ==
  /\ schema = NoJson
  /\ cleaned = NoJson
  /\ kiroBody = NoKiroBody
  /\ kiroPayload = NoPayload

otherVars ==
  <<usageVars, logVars, kiroVars, providerVars, executorVars, translatorVars>>
vars == <<chatVars, otherVars>>

\* A request body: json says that request.json() parses it, model that it
\* has a model.
NoBody ==
  [stream |-> TRUE, flag |-> "absent", bypass |-> FALSE, messages |-> <<>>,
   json |-> TRUE, model |-> TRUE]
\* body.stream as the client sent it: true, false, or not set.
StreamFlags == {"true", "false", "absent"}
\* The reading that takes only stream: true as a request for a stream.
Streaming_OnlyTrue(flag) == flag = "true"
\* const stream = body.stream !== false
Streaming(flag) == flag # "false"
\* body.messages: none, or one message.
MessageLists == {<<>>, <<"hi">>}
NoAttempts == [conns |-> <<>>, failures |-> 0, lastFailure |-> NoText]
\* What getProviderCredentials returns: the connection's id and its record
\* as read at that moment.
Credentials(cs, c) == [connectionId |-> c, record |-> cs[c]]
NoSelection == [connectionId |-> NoConn, record |-> CleanConnection(FALSE)]
NoCore ==
  [providerResponse |-> NoReply, jsonBody |-> PlainBody, usage |-> NoUsage,
   events |-> <<>>]

\* The store as it can be found when the requests arrive: the provider's
\* connections all disabled or all but the last one active, every
\* connection as created, the first one with a connection test on record
\* that it passed or failed.
InitChat(at, bodies) ==
  /\ now = 0
  /\ \E isValid \in BOOLEAN, numActive \in {0, NumConns} :
       connections =
         [c \in Conns |->
            IF c = 1 THEN TestedConnection(CleanConnection(c <= numActive), isValid)
            ELSE CleanConnection(c <= numActive)]
  /\ pendingRequests = [byModel |-> EmptyDict, byAccount |-> EmptyDict]
  /\ netCalls = NoCalls
  /\ trackCalls = 0
  /\ markedUntil = [c \in Conns |-> 0]
  /\ markDeadline = [c \in Conns |-> 0]
  /\ pc = [r \in Reqs |-> at]
  /\ body \in [Reqs -> bodies]
  /\ excludeConnectionId = [r \in Reqs |-> NoConn]
  /\ lastError = [r \in Reqs |-> NoText]
  /\ credentials = [r \in Reqs |-> NoSelection]
  /\ core = [r \in Reqs |-> NoCore]
  /\ result = [r \in Reqs |-> NoResult]
  /\ response = [r \in Reqs |-> NoResponse]
  /\ attempts = [r \in Reqs |-> NoAttempts]
  /\ saves = [r \in Reqs |-> 0]
  /\ UsageIdle
  /\ LogIdle
  /\ KiroIdle
  /\ ProvidersIdle
  /\ ExecutorIdle
  /\ TranslatorIdle
\* The requests are in handleSingleModelChat.
Init == InitChat("start", {NoBody})

(********************* handleSingleModelChat (chat.js) *********************)
BypassResponse == [status |-> 200, kind |-> "bypass", error |-> NoText]
ThrownResponse == [status |-> 0, kind |-> "thrown", error |-> NoText]

\* if (!credentials) { if (!excludeConnectionId) 400 ...; 503 with
\* lastError || "All accounts unavailable" }
NoCredentialsResponse_Always503(exclude, lastErr) ==
  ErrorResponse(503, IF lastErr # NoText THEN lastErr ELSE AllUnavailableMessage)
NoCredentialsResponse(exclude, lastErr) ==
  IF exclude = NoConn
  THEN ErrorResponse(400, NoCredentialsMessage)
  ELSE ErrorResponse(503, IF lastErr # NoText THEN lastErr
                          ELSE AllUnavailableMessage)

\* await markAccountUnavailable(credentials.connectionId, cooldownMs,
\*   result.error?.slice(0, 100), result.status, provider)
AccountUnavailable_NoSlice(cs, c, fb, res, t) ==
  markAccountUnavailable(cs, c, fb.cooldownMs, res.error, res.status, t)
AccountUnavailable_NoCooldown(cs, c, fb, res, t) ==
  markAccountUnavailable(cs, c, 0, Slice(res.error, ErrorSliceLen), res.status, t)
AccountUnavailable(cs, c, fb, res, t) ==
  markAccountUnavailable(cs, c, fb.cooldownMs, Slice(res.error, ErrorSliceLen),
                         res.status, t)

\* return <response>: the call is over and its locals are gone.
Return(r, resp) ==
  /\ response' = [response EXCEPT ![r] = resp]
  /\ pc' = [pc EXCEPT ![r] = "done"]
  /\ body' = [body EXCEPT ![r] = NoBody]
  /\ excludeConnectionId' = [excludeConnectionId EXCEPT ![r] = NoConn]
  /\ lastError' = [lastError EXCEPT ![r] = NoText]
  /\ credentials' = [credentials EXCEPT ![r] = NoSelection]
  /\ core' = [core EXCEPT ![r] = NoCore]
  /\ result' = [result EXCEPT ![r] = NoResult]
  /\ attempts' = [attempts EXCEPT ![r] = NoAttempts]
  /\ saves' = [saves EXCEPT ![r] = 0]

\* onCredentialsRefreshed: async (newCreds) => updateProviderCredentials(...)
onCredentialsRefreshed(cs, creds) == updateProviderCredentials(cs, creds.connectionId)

\* onRequestSuccess: async () => clearAccountError(connectionId, credentials)
onRequestSuccess_Noop(cs, creds) == cs
onRequestSuccess(cs, creds) == clearAccountError(cs, creds.connectionId, creds.record)

\* The request arrives: its body sets the stream flag or not, matches a
\* bypass pattern or not and carries a list of messages, which handleChat
\* counts for its log line; getModelInfo resolves its model to a provider
\* or to none ("Invalid model format").
Start(r, bypasses, providers, messageLists) ==
  /\ pc[r] = "start"
  /\ \E flag \in StreamFlags, bypass \in bypasses, provider \in providers,
        messages \in messageLists :
       IF provider = ""
       THEN Return(r, ErrorResponse(400, InvalidModelMessage))
       ELSE /\ body' = [body EXCEPT ![r].stream = Streaming(flag),
                                    ![r].flag = flag,
                                    ![r].bypass = bypass,
                                    ![r].messages = messages]
            /\ pc' = [pc EXCEPT ![r] = "select"]
            /\ UNCHANGED <<response, excludeConnectionId, lastError,
                           credentials, core, result, attempts, saves>>
  /\ UNCHANGED <<now, storeVars, counterVars, trackCalls>>
  /\ UNCHANGED otherVars

\* const credentials = await getProviderCredentials(provider, excludeConnectionId)
SelectCredentials(r) ==
  /\ pc[r] = "select"
  /\ LET c == getProviderCredentials(connections, excludeConnectionId[r], now)
     IN IF c = NoConn
        THEN Return(r, NoCredentialsResponse(excludeConnectionId[r], lastError[r]))
        ELSE /\ credentials' = [credentials EXCEPT ![r] = Credentials(connections, c)]
             /\ attempts' = [attempts EXCEPT ![r].conns = Append(@, c)]
             /\ pc' = [pc EXCEPT ![r] = "core"]
             /\ UNCHANGED <<response, body, excludeConnectionId, lastError,
                            core, result, saves>>
  /\ UNCHANGED <<now, storeVars, counterVars, trackCalls>>
  /\ UNCHANGED otherVars

\* if (result.success) return result.response; otherwise the fallback
\* policy decides between marking the account and trying the next one, and
\* returning the error response.
Decide(r) ==
  /\ pc[r] = "decide"
  /\ LET res == result[r]
         c == credentials[r].connectionId
         fb == checkFallbackError(res.status, res.error)
     IN IF res.success
        THEN Return(r, res.response) /\ UNCHANGED storeVars
        ELSE IF fb.shouldFallback
        THEN /\ connections' = AccountUnavailable(connections, c, fb, res, now)
             /\ markedUntil' = [markedUntil EXCEPT ![c] = now + fb.cooldownMs]
             /\ markDeadline' = [markDeadline EXCEPT ![c] =
                                   Max(@, now + fb.cooldownMs)]
             /\ excludeConnectionId' = [excludeConnectionId EXCEPT ![r] = c]
             /\ lastError' = [lastError EXCEPT ![r] = res.error]
             /\ pc' = [pc EXCEPT ![r] = "select"]
             /\ core' = [core EXCEPT ![r] = NoCore]
             /\ result' = [result EXCEPT ![r] = NoResult]
             /\ attempts' = [attempts EXCEPT ![r].failures = @ + 1,
                                             ![r].lastFailure = res.error]
             /\ UNCHANGED <<response, body, credentials, saves>>
        ELSE Return(r, res.response) /\ UNCHANGED storeVars
  /\ UNCHANGED <<now, counterVars, trackCalls>>
  /\ UNCHANGED otherVars

(********************* handleChatCore (geminiHelper.js) ********************)
\* trackPendingRequest(model, provider, connectionId, true)
ClaimPending(pr, c) == trackPendingRequest(pr, Model, Provider, c, TRUE)
\* trackPendingRequest(model, provider, connectionId, false)
ReleasePending_Skip(pr, c) == pr
ReleasePending(pr, c) == trackPendingRequest(pr, Model, Provider, c, FALSE)

FailedLine(status) == "log:FAILED " \o StatusText(status)
ResponseEvent(reply) == "response:" \o StatusText(reply.status)
ThrowEvent(reply) == "throw:" \o reply.kind
RefreshEvent(newCredentials) ==
  IF newCredentials.accessToken THEN "refresh:accessToken"
  ELSE IF newCredentials.copilotToken THEN "refresh:copilotToken"
  ELSE "refresh:noToken"

\* refreshWithRetry(fn, 3, log): the first non-null answer of up to
\* RefreshMaxRetries calls of executor.refreshCredentials, or null.
RECURSIVE FirstAnswer(_, _)
FirstAnswer(answers, i) ==
  IF i > Len(answers) THEN NoCredentials
  ELSE IF ~answers[i].isNull THEN answers[i]
  ELSE FirstAnswer(answers, i + 1)
refreshWithRetry(answers) == FirstAnswer(answers, 1)

Emit(r, evs) == [core EXCEPT ![r].events = @ \o evs]

\* Entry: a bypass pattern is answered at once with a synthetic response;
\* otherwise the request is translated, counted as pending and logged.
CoreEnter(r) ==
  /\ pc[r] = "core"
  /\ IF body[r].bypass
     THEN /\ result' = [result EXCEPT ![r] = SuccessResult(BypassResponse)]
          /\ core' = [core EXCEPT ![r] = NoCore]
          /\ pc' = [pc EXCEPT ![r] = "decide"]
          /\ UNCHANGED counterVars
     ELSE /\ pendingRequests' = ClaimPending(pendingRequests, credentials[r].connectionId)
          /\ netCalls' = CountCalls(netCalls, Model, Provider,
                                    credentials[r].connectionId, TRUE)
          /\ core' = [core EXCEPT ![r] =
                        [NoCore EXCEPT !.events = <<"track+", "log:PENDING">>]]
          /\ pc' = [pc EXCEPT ![r] = "execute"]
          /\ UNCHANGED result
  /\ UNCHANGED <<now, storeVars, trackCalls, body, excludeConnectionId,
                 lastError, credentials, response, attempts, saves>>
  /\ UNCHANGED otherVars

\* try { result = await executor.execute(...) } catch (error) { ... }
Execute(r, replies) ==
  /\ pc[r] = "execute"
  /\ \E reply \in replies :
       IF reply.kind # "response"
       THEN LET status == ExecuteErrorStatus(reply.kind)
                message == IF reply.kind = "AbortError" THEN AbortedMessage
                           ELSE formatProviderError(reply.message, status)
            IN /\ pendingRequests' = ReleasePending(pendingRequests,
                                                  credentials[r].connectionId)
               /\ netCalls' = CountCalls(netCalls, Model, Provider,
                                         credentials[r].connectionId, FALSE)
               /\ core' = Emit(r, <<"execute", ThrowEvent(reply), "track-",
                                     FailedLine(status)>>)
               /\ result' = [result EXCEPT ![r] =
                               createErrorResult(status, message, 0)]
               /\ pc' = [pc EXCEPT ![r] = "decide"]
       ELSE /\ core' = [core EXCEPT ![r].providerResponse = reply,
                                    ![r].events = @ \o <<"execute", ResponseEvent(reply)>>]
            /\ pc' = [pc EXCEPT ![r] =
                        IF reply.status \in {401, 403} THEN "refresh" ELSE "check"]
            /\ UNCHANGED <<counterVars, result>>
  /\ UNCHANGED <<now, storeVars, trackCalls, body, excludeConnectionId,
                 lastError, credentials, response, attempts, saves>>
  /\ UNCHANGED otherVars

\* 401/403: refreshWithRetry; with new credentials the caller's
\* onCredentialsRefreshed stores them and the request is executed again.
RefreshToken(r) ==
  /\ pc[r] = "refresh"
  /\ \E answers \in [1..RefreshMaxRetries -> RefreshResults] :
       LET newCredentials == refreshWithRetry(answers)
       IN IF RefreshSucceeded(newCredentials)
          THEN /\ connections' = onCredentialsRefreshed(connections, credentials[r])
               /\ core' = Emit(r, <<RefreshEvent(newCredentials),
                                     "onCredentialsRefreshed">>)
               /\ pc' = [pc EXCEPT ![r] = "retry"]
          ELSE /\ core' = Emit(r, <<"refresh:failed">>)
               /\ pc' = [pc EXCEPT ![r] = "check"]
               /\ UNCHANGED connections
  /\ UNCHANGED <<now, markedUntil, markDeadline, counterVars, trackCalls, body,
                 excludeConnectionId, lastError, credentials, result, response,
                 attempts, saves>>
  /\ UNCHANGED otherVars

\* The second executor.execute, with its response taken whatever it is.
RetryExecute_AnyResponse(r, replies) ==
  /\ pc[r] = "retry"
  /\ \E reply \in replies :
       core' = [core EXCEPT
         ![r].providerResponse = IF reply.kind = "response" THEN reply ELSE @,
         ![r].events = @ \o <<"execute",
                               IF reply.kind = "response" THEN ResponseEvent(reply)
                               ELSE ThrowEvent(reply)>>]
  /\ pc' = [pc EXCEPT ![r] = "check"]
  /\ UNCHANGED <<now, storeVars, counterVars, trackCalls, body,
                 excludeConnectionId, lastError, credentials, result, response,
                 attempts, saves>>
  /\ UNCHANGED otherVars
\* The second executor.execute: its response replaces the first only when
\* it is ok; a throw is logged and swallowed.
RetryExecute(r, replies) ==
  /\ pc[r] = "retry"
  /\ \E reply \in replies :
       core' = [core EXCEPT
         ![r].providerResponse = IF Ok(reply) THEN reply ELSE @,
         ![r].events = @ \o <<"execute",
                               IF reply.kind = "response" THEN ResponseEvent(reply)
                               ELSE ThrowEvent(reply)>>]
  /\ pc' = [pc EXCEPT ![r] = "check"]
  /\ UNCHANGED <<now, storeVars, counterVars, trackCalls, body,
                 excludeConnectionId, lastError, credentials, result, response,
                 attempts, saves>>
  /\ UNCHANGED otherVars

\* if (!providerResponse.ok) { ... error result }; if (!stream) { release,
\* then read the body }; else success callback and the piped stream.
CheckResponse(r) ==
  /\ pc[r] = "check"
  /\ LET reply == core[r].providerResponse
         c == credentials[r].connectionId
         err == parseUpstreamError(reply)
     IN IF ~Ok(reply)
        THEN /\ pendingRequests' = ReleasePending(pendingRequests, c)
             /\ netCalls' = CountCalls(netCalls, Model, Provider, c, FALSE)
             /\ core' = Emit(r, <<"track-", FailedLine(err.statusCode)>>)
             /\ result' = [result EXCEPT ![r] =
                  createErrorResult(err.statusCode,
                                    formatProviderError(err.message, err.statusCode),
                                    err.retryAfterMs)]
             /\ pc' = [pc EXCEPT ![r] = "decide"]
             /\ UNCHANGED storeVars
        ELSE IF ~body[r].stream
        THEN /\ pendingRequests' = ReleasePending(pendingRequests, c)
             /\ netCalls' = CountCalls(netCalls, Model, Provider, c, FALSE)
             /\ core' = Emit(r, <<"track-">>)
             /\ pc' = [pc EXCEPT ![r] = "json"]
             /\ UNCHANGED <<storeVars, result>>
        ELSE /\ connections' = onRequestSuccess(connections, credentials[r])
             /\ markedUntil' = [markedUntil EXCEPT ![c] =
                                  IF HasError(credentials[r].record) THEN 0 ELSE @]
             /\ core' = Emit(r, <<"onRequestSuccess">>)
             /\ result' = [result EXCEPT ![r] = SuccessResult(SseResponse)]
             /\ pc' = [pc EXCEPT ![r] = "decide"]
             /\ UNCHANGED <<markDeadline, counterVars>>
  /\ UNCHANGED <<now, trackCalls, body, excludeConnectionId, lastError,
                 credentials, response, attempts, saves>>
  /\ UNCHANGED otherVars

\* const responseBody = await providerResponse.json(); success callback;
\* usage extracted, logged and, when there is one, saved.  A body that is
\* not JSON makes json() throw, and the request ends with that exception.
ReadJson(r) ==
  /\ pc[r] = "json"
  /\ \/ \E responseBody \in JsonBodies :
          LET usage == extractUsageFromResponse(responseBody)
              c == credentials[r].connectionId
          IN /\ connections' = onRequestSuccess(connections, credentials[r])
             /\ markedUntil' = [markedUntil EXCEPT ![c] =
                                  IF HasError(credentials[r].record) THEN 0 ELSE @]
             /\ core' = [core EXCEPT
                  ![r].jsonBody = responseBody,
                  ![r].usage = usage,
                  ![r].events = @ \o <<"json", "onRequestSuccess", "log:200 OK">>
                                  \o (IF usage.isNull THEN <<>>
                                      ELSE <<"saveRequestUsage">>)]
             /\ saves' = [saves EXCEPT ![r] = IF usage.isNull THEN @ ELSE @ + 1]
             /\ result' = [result EXCEPT ![r] = SuccessResult(JsonResponse)]
             /\ pc' = [pc EXCEPT ![r] = "decide"]
             /\ UNCHANGED <<response, body, excludeConnectionId, lastError,
                            credentials, attempts>>
     \/ /\ Return(r, ThrownResponse)
        /\ UNCHANGED <<connections, markedUntil>>
  /\ UNCHANGED <<now, markDeadline, counterVars, trackCalls>>
  /\ UNCHANGED otherVars

(***************************** environment *********************************)
Tick ==
  /\ now < MaxTicks * ClockStepMs
  /\ now' = now + ClockStepMs
  /\ UNCHANGED <<storeVars, counterVars, trackCalls, pc, body,
                 excludeConnectionId, lastError, credentials, core, result,
                 response, attempts, saves>>
  /\ UNCHANGED otherVars

\* One request with every input, and the clock.
Next ==
  \/ \E r \in {1} :
       \/ Start(r, BOOLEAN, {Provider, ""}, MessageLists)
       \/ SelectCredentials(r)
       \/ CoreEnter(r)
       \/ Execute(r, Replies)
       \/ RefreshToken(r)
       \/ RetryExecute(r, Replies)
       \/ CheckResponse(r)
       \/ ReadJson(r)
       \/ Decide(r)
  \/ Tick

Spec == Init /\ [][Next]_vars

(***************************** handleChat (chat.js) ************************)
InvalidJsonMessage == <<"j", "s", "o", "n">>
MissingModelMessage == <<"m", "o", "d", "e", "l">>
\* The bodies that arrive: not JSON, JSON without a model, JSON with one.
RequestBodies ==
  {[NoBody EXCEPT !.json = FALSE, !.model = FALSE],
   [NoBody EXCEPT !.model = FALSE], NoBody}

\* try { body = await request.json() } catch { return 400 };
\* if (!modelStr) return 400; what it logs before goes to the console.
HandleChat_NoModelCheck(r) ==
  /\ pc[r] = "handleChat"
  /\ IF ~body[r].json
     THEN Return(r, ErrorResponse(400, InvalidJsonMessage))
     ELSE /\ pc' = [pc EXCEPT ![r] = "combo"]
          /\ UNCHANGED <<response, body, excludeConnectionId, lastError,
                         credentials, core, result, attempts, saves>>
  /\ UNCHANGED <<now, storeVars, counterVars, trackCalls>>
  /\ UNCHANGED otherVars
HandleChat(r) ==
  /\ pc[r] = "handleChat"
  /\ IF ~body[r].json
     THEN Return(r, ErrorResponse(400, InvalidJsonMessage))
     ELSE IF ~body[r].model
     THEN Return(r, ErrorResponse(400, MissingModelMessage))
     ELSE /\ pc' = [pc EXCEPT ![r] = "combo"]
          /\ UNCHANGED <<response, body, excludeConnectionId, lastError,
                         credentials, core, result, attempts, saves>>
  /\ UNCHANGED <<now, storeVars, counterVars, trackCalls>>
  /\ UNCHANGED otherVars

\* const comboModels = await getComboModels(modelStr): the model is not a
\* combo, and the request goes on to handleSingleModelChat.
GetComboModels(r) ==
  /\ pc[r] = "combo"
  /\ pc' = [pc EXCEPT ![r] = "start"]
  /\ UNCHANGED <<now, storeVars, counterVars, trackCalls, response, body,
                 excludeConnectionId, lastError, credentials, core, result,
                 attempts, saves>>
  /\ UNCHANGED otherVars

InitHandleChat == InitChat("handleChat", RequestBodies)

NextHandleChat ==
  \/ \E r \in {1} : HandleChat(r) \/ GetComboModels(r)
  \/ Next

SpecHandleChat == InitHandleChat /\ [][NextHandleChat]_vars

\* Concurrent requests for the same provider, interleaved at every await,
\* with the upstream answering 200 or 500 (so that no token refresh occurs)
\* and no request matching a bypass pattern.
ConcurrentReplies == {OkReply, Reply("response", 500, LongMessage, 0)}

NextConcurrent ==
  \/ \E r \in Reqs :
       \/ Start(r, {FALSE}, {Provider}, {<<"hi">>})
       \/ SelectCredentials(r)
       \/ CoreEnter(r)
       \/ Execute(r, ConcurrentReplies)
       \/ CheckResponse(r)
       \/ ReadJson(r)
       \/ Decide(r)
  \/ Tick

SpecConcurrent == Init /\ [][NextConcurrent]_vars

(************ direct calls of trackPendingRequest (usageDb.js) *************)
\* trackPendingRequest is exported: any caller may call it with any model,
\* provider (possibly none), connection id (possibly none) and flag.
TrackModels == {Model, "claude-sonnet-4"}
TrackProviders == {"", Provider}

TrackCall ==
  /\ trackCalls < MaxTrackCalls
  /\ \E model \in TrackModels, provider \in TrackProviders,
        connectionId \in {NoConn} \cup (1..NumConns), started \in BOOLEAN :
       /\ pendingRequests' =
            trackPendingRequest(pendingRequests, model, provider, connectionId, started)
       /\ netCalls' = CountCalls(netCalls, model, provider, connectionId, started)
  /\ trackCalls' = trackCalls + 1
  /\ UNCHANGED <<now, storeVars, pc, body, excludeConnectionId, lastError,
                 credentials, core, result, response, attempts, saves>>
  /\ UNCHANGED otherVars

NextTrack == TrackCall

SpecTrack == Init /\ [][NextTrack]_vars

(***************** saveRequestUsage, getUsageDb (usageDb.js) ***************)
\* No chat request is in progress.
ChatIdle ==
  /\ now = 0
  /\ connections = [c \in Conns |-> CleanConnection(TRUE)]
  /\ pendingRequests = [byModel |-> EmptyDict, byAccount |-> EmptyDict]
  /\ netCalls = NoCalls
  /\ trackCalls = 0
  /\ markedUntil = [c \in Conns |-> 0]
  /\ markDeadline = [c \in Conns |-> 0]
  /\ pc = [r \in Reqs |-> "start"]
  /\ body = [r \in Reqs |-> NoBody]
  /\ excludeConnectionId = [r \in Reqs |-> NoConn]
  /\ lastError = [r \in Reqs |-> NoText]
  /\ credentials = [r \in Reqs |-> NoSelection]
  /\ core = [r \in Reqs |-> NoCore]
  /\ result = [r \in Reqs |-> NoResult]
  /\ response = [r \in Reqs |-> NoResponse]
  /\ attempts = [r \in Reqs |-> NoAttempts]
  /\ saves = [r \in Reqs |-> 0]

\* A usage entry; timestamp 0 stands for an entry passed without one.
NoTimestamp == 0
UsageEntry(id, timestamp) == [id |-> id, timestamp |-> timestamp]
\* Entries recorded by earlier runs of the process.
OldEntries(n) == [i \in 1..n |-> UsageEntry(i, i)]

\* usage.json holding { history: <history> }
JsonFile(data) == [kind |-> "json", data |-> data]
\* usage.json cut short by a crash: JSON.parse throws a SyntaxError
CorruptFile == [kind |-> "corrupt", data |-> defaultData]
\* usage.json whose history is not an array
NotArrayData == [isArray |-> FALSE, history |-> <<>>]

\* new Low(adapter, defaultData): data is defaultData until read() finds
\* data in the file.
Low(data) == [exists |-> TRUE, data |-> data]

\* getUsageDb: the singleton is assigned before the first read; a read error
\* other than a SyntaxError is rethrown; a corrupt file is reset to the
\* defaults and written back; a missing file leaves the defaults in place.
getUsageDb(db, file, readOk, resetOk) ==
  IF db.exists
  THEN [db |-> db, file |-> file, threw |-> FALSE]
  ELSE IF ~readOk
       THEN [db |-> Low(defaultData), file |-> file, threw |-> TRUE]
       ELSE CASE file.kind = "corrupt" ->
                   IF resetOk
                   THEN [db |-> Low(defaultData), file |-> JsonFile(defaultData),
                         threw |-> FALSE]
                   ELSE [db |-> Low(defaultData), file |-> file, threw |-> TRUE]
              [] file.kind = "missing" ->
                   [db |-> Low(defaultData), file |-> file, threw |-> FALSE]
              [] OTHER ->
                   [db |-> Low(file.data), file |-> file, threw |-> FALSE]

\* db.data.history.push(entry)
Push_Front(history, entry) == <<entry>> \o history
Push(history, entry) == Append(history, entry)

\* saveRequestUsage(entry): whatever is thrown inside is caught and logged.
saveRequestUsage(db, file, entry, date, readOk, resetOk, writeOk) ==
  LET got == getUsageDb(db, file, readOk, resetOk) IN
  IF got.threw
  THEN [db |-> got.db, file |-> got.file, outcome |-> "failed",
        returned |-> TRUE, entry |-> entry]
  ELSE LET stamped == IF entry.timestamp = NoTimestamp
                      THEN [entry EXCEPT !.timestamp = date]
                      ELSE entry
           history == IF got.db.data.isArray THEN got.db.data.history ELSE <<>>
           data == [isArray |-> TRUE, history |-> Push(history, stamped)]
       IN  IF writeOk
           THEN [db |-> Low(data), file |-> JsonFile(data), outcome |-> "saved",
                 returned |-> TRUE, entry |-> stamped]
           ELSE [db |-> Low(data), file |-> got.file, outcome |-> "failed",
                 returned |-> TRUE, entry |-> stamped]

\* One call of saveRequestUsage, run to its end before the next one starts.
SaveRequestUsage ==
  /\ usageCalls < MaxSaves
  /\ \E timestamp \in {NoTimestamp, SuppliedTimestamp},
        readOk \in BOOLEAN, resetOk \in BOOLEAN, writeOk \in BOOLEAN :
       LET entry == UsageEntry(FirstNewId + usageCalls, timestamp)
           saved == saveRequestUsage(dbInstance, usageFile, entry,
                                     ClockStepMs + usageCalls,
                                     readOk, resetOk, writeOk)
       IN  /\ dbInstance' = saved.db
           /\ usageFile' = saved.file
           /\ lastSave' = [outcome |-> saved.outcome, returned |-> saved.returned,
                           entry |-> saved.entry]
  /\ usageCalls' = usageCalls + 1
  /\ UNCHANGED <<costVars, saverVars, chatVars, executorVars, translatorVars, logVars,
                 kiroVars, providerVars>>

\* The process starts with usage.json missing, cut short, holding a history
\* of up to MaxOldEntries entries, or holding something else under "history".
InitUsage ==
  /\ ChatIdle
  /\ usageFile \in {NoFile, CorruptFile, JsonFile(NotArrayData)}
                   \cup {JsonFile([isArray |-> TRUE, history |-> OldEntries(n)]) :
                           n \in 0..MaxOldEntries}
  /\ dbInstance = NoDb
  /\ usageCalls = 0
  /\ lastSave = NoSave
  /\ CostIdle
  /\ SaversIdle
  /\ LogIdle
  /\ KiroIdle
  /\ ProvidersIdle
  /\ ExecutorIdle
  /\ TranslatorIdle

NextUsage == SaveRequestUsage

SpecUsage == InitUsage /\ [][NextUsage]_vars

(************* concurrent saveRequestUsage calls (usageDb.js) **************)
\* Each call runs to its next await in one step.  db.write() hands the
\* data to the file as it is when write is called; dbInstance.read() takes
\* the file's content at some moment between its call and its completion.
\* Reads and writes succeed here.

\* The entry of call i, passed with a timestamp.
SaverEntry(i) == UsageEntry(FirstNewId + i, SuppliedTimestamp)
\* if (!Array.isArray(db.data.history)) db.data.history = [];
\* db.data.history.push(entry)
PushEntry(data, entry) ==
  [isArray |-> TRUE,
   history |-> Push(IF data.isArray THEN data.history ELSE <<>>, entry)]
\* saveRequestUsage(entry) up to its first await that waits for the disk:
\* the first caller creates the singleton, which holds defaultData, and
\* awaits its read; a caller that finds the singleton gets it at once,
\* pushes its entry and awaits the write.
SaveEnter(i) ==
  /\ savers[i].pc = "idle"
  /\ IF ~dbInstance.exists
     THEN /\ dbInstance' = Low(defaultData)
          /\ savers' = [savers EXCEPT ![i].pc = "read"]
          /\ UNCHANGED usageFile
     ELSE LET data == PushEntry(dbInstance.data, SaverEntry(i))
          IN  /\ dbInstance' = Low(data)
              /\ usageFile' = JsonFile(data)
              /\ savers' = [savers EXCEPT ![i].pc = "write"]
  /\ UNCHANGED <<usageLoad, usageCalls, lastSave, costVars>>
  /\ UNCHANGED <<chatVars, executorVars, translatorVars, logVars, kiroVars,
                 providerVars>>

\* The adapter reads usage.json.
ReadFile(i) ==
  /\ savers[i].pc = "read"
  /\ savers' = [savers EXCEPT ![i] = [pc |-> "loaded", read |-> usageFile]]
  /\ usageLoad' = [usageLoad EXCEPT !.reads = @ + 1]
  /\ UNCHANGED <<usageFile, dbInstance, usageCalls, lastSave, costVars>>
  /\ UNCHANGED <<chatVars, executorVars, translatorVars, logVars, kiroVars,
                 providerVars>>

\* await dbInstance.read() is over: data found in the file replaces the
\* singleton's data; a missing file leaves it; a SyntaxError sets it to
\* defaultData, which is the object it has held since its creation, and
\* writes that.  Then the caller's entry is pushed and written.
ReadDone(i) ==
  /\ savers[i].pc = "loaded"
  /\ LET found == savers[i].read
         loaded == IF found.kind = "json" THEN found.data ELSE dbInstance.data
         data == PushEntry(loaded, SaverEntry(i))
     IN  IF found.kind = "corrupt"
         THEN /\ usageFile' = JsonFile(dbInstance.data)
              /\ savers' = [savers EXCEPT ![i] = [pc |-> "reset", read |-> NoFile]]
              /\ UNCHANGED dbInstance
         ELSE /\ dbInstance' = Low(data)
              /\ usageFile' = JsonFile(data)
              /\ savers' = [savers EXCEPT ![i] = [pc |-> "write", read |-> NoFile]]
  /\ UNCHANGED <<usageLoad, usageCalls, lastSave, costVars>>
  /\ UNCHANGED <<chatVars, executorVars, translatorVars, logVars, kiroVars,
                 providerVars>>

\* The write of the reset is over: the caller's entry is pushed and written.
ResetDone(i) ==
  /\ savers[i].pc = "reset"
  /\ LET data == PushEntry(dbInstance.data, SaverEntry(i))
     IN  /\ dbInstance' = Low(data)
         /\ usageFile' = JsonFile(data)
  /\ savers' = [savers EXCEPT ![i].pc = "write"]
  /\ UNCHANGED <<usageLoad, usageCalls, lastSave, costVars>>
  /\ UNCHANGED <<chatVars, executorVars, translatorVars, logVars, kiroVars,
                 providerVars>>

\* await db.write() is over, and saveRequestUsage returns.
WriteDone(i) ==
  /\ savers[i].pc = "write"
  /\ savers' = [savers EXCEPT ![i].pc = "done"]
  /\ UNCHANGED <<usageLoad, usageFile, dbInstance, usageCalls, lastSave, costVars>>
  /\ UNCHANGED <<chatVars, executorVars, translatorVars, logVars, kiroVars,
                 providerVars>>

\* The process starts with no database loaded and usage.json missing, cut
\* short, or holding a history of up to MaxOldEntries entries or something
\* else under "history".
InitSavers ==
  /\ ChatIdle
  /\ usageFile \in {NoFile, CorruptFile, JsonFile(NotArrayData)}
                   \cup {JsonFile([isArray |-> TRUE, history |-> OldEntries(n)]) :
                           n \in 0..MaxOldEntries}
  /\ dbInstance = NoDb
  /\ usageCalls = 0
  /\ lastSave = NoSave
  /\ CostIdle
  /\ savers = [i \in Savers |-> NoSaver]
  /\ usageLoad = [reads |-> 0,
                  before |-> IF usageFile.kind = "json" /\ usageFile.data.isArray
                             THEN usageFile.data.history ELSE <<>>]
  /\ LogIdle
  /\ KiroIdle
  /\ ProvidersIdle
  /\ ExecutorIdle
  /\ TranslatorIdle

NextSavers ==
  \E i \in Savers :
    \/ SaveEnter(i)
    \/ ReadFile(i)
    \/ ReadDone(i)
    \/ ResetDone(i)
    \/ WriteDone(i)

SpecSavers == InitSavers /\ [][NextSavers]_vars

(********************** calculateCost (usageDb.js) *************************)
\* Rates are in USD per million tokens and whole numbers here; a cost is
\* counted in millionths of a dollar, which is tokens times rate.
\* The names a tokens object uses for the categories: those of the usage
\* extracted from an OpenAI or Gemini body, or those of a Claude usage.
CategoryNames ==
  [openai |-> [prompt |-> "prompt_tokens", cached |-> "cached_tokens",
               completion |-> "completion_tokens",
               reasoning |-> "reasoning_tokens",
               cache_creation |-> "cache_creation_input_tokens"],
   claude |-> [prompt |-> "input_tokens", cached |-> "cache_read_input_tokens",
               completion |-> "output_tokens",
               reasoning |-> "reasoning_tokens",
               cache_creation |-> "cache_creation_input_tokens"]]
TokenFields ==
  {"prompt_tokens", "input_tokens", "cached_tokens", "cache_read_input_tokens",
   "completion_tokens", "output_tokens", "reasoning_tokens",
   "cache_creation_input_tokens"}
\* The tokens object with these counts under these names; a category whose
\* count is 0 may as well be written, the other names are undefined.
TokensObject(names, counts) ==
  [f \in TokenFields |->
     IF \E c \in Categories : CategoryNames[names][c] = f
     THEN counts[CHOOSE c \in Categories : CategoryNames[names][c] = f]
     ELSE Undef]
\* x || y for numbers: undefined and 0 are falsy
Either(x, y) == IF x = Undef \/ x = 0 THEN y ELSE x

\* A pricing entry with every rate, and one with the required rates only.
FullPricing ==
  [kind |-> "found", input |-> 3, output |-> 5, cached |-> 2, reasoning |-> 7,
   cache_creation |-> 11]
BarePricing ==
  [kind |-> "found", input |-> 3, output |-> 5, cached |-> 0, reasoning |-> 0,
   cache_creation |-> 0]
\* getPricingForModel finds an entry, finds none, or the import throws.
Pricings ==
  {FullPricing, BarePricing, NoPricing, [NoPricing EXCEPT !.kind = "throws"]}

\* The rates without their fallbacks.
calculateCost_NoFallback(given, pricing, tokens) ==
  IF ~given \/ pricing.kind # "found" THEN 0
  ELSE LET inputTokens == Either(tokens.prompt_tokens, Either(tokens.input_tokens, 0))
           cachedTokens == Either(tokens.cached_tokens,
                                  Either(tokens.cache_read_input_tokens, 0))
           outputTokens == Either(tokens.completion_tokens,
                                  Either(tokens.output_tokens, 0))
       IN  Max(0, inputTokens - cachedTokens) * pricing.input
           + cachedTokens * pricing.cached
           + outputTokens * pricing.output
           + Either(tokens.reasoning_tokens, 0) * pricing.reasoning
           + Either(tokens.cache_creation_input_tokens, 0) * pricing.cache_creation
\* calculateCost(provider, model, tokens)
calculateCost(given, pricing, tokens) ==
  IF ~given \/ pricing.kind # "found" THEN 0
  ELSE LET inputTokens == Either(tokens.prompt_tokens, Either(tokens.input_tokens, 0))
           cachedTokens == Either(tokens.cached_tokens,
                                  Either(tokens.cache_read_input_tokens, 0))
           nonCachedInput == Max(0, inputTokens - cachedTokens)
           outputTokens == Either(tokens.completion_tokens,
                                  Either(tokens.output_tokens, 0))
           reasoningTokens == Either(tokens.reasoning_tokens, 0)
           cacheCreationTokens == Either(tokens.cache_creation_input_tokens, 0)
       IN  nonCachedInput * pricing.input
           + (IF cachedTokens > 0
              THEN cachedTokens * Either(pricing.cached, pricing.input) ELSE 0)
           + outputTokens * pricing.output
           + (IF reasoningTokens > 0
              THEN reasoningTokens * Either(pricing.reasoning, pricing.output)
              ELSE 0)
           + (IF cacheCreationTokens > 0
              THEN cacheCreationTokens * Either(pricing.cache_creation, pricing.input)
              ELSE 0)

\* calculateCost is called for an entry.
CalculateCost ==
  /\ ~cost.called
  /\ cost' = [called |-> TRUE,
              value |-> calculateCost(costInput.given, costPricing,
                           TokensObject(costInput.names, costInput.counts))]
  /\ UNCHANGED <<costInput, costPricing, raised>>
  /\ UNCHANGED <<usageFile, dbInstance, usageCalls, lastSave, saverVars>>
  /\ UNCHANGED <<chatVars, executorVars, translatorVars, logVars, kiroVars,
                 providerVars>>

\* calculateCost is called again for the same entry with one category
\* raised by k tokens.
CalculateRaised ==
  /\ cost.called
  /\ costInput.given
  /\ raised.count < MaxRaises
  /\ \E c \in Categories, k \in 1..MaxRaise :
       LET counts == [costInput.counts EXCEPT ![c] = @ + k]
       IN  /\ costInput' = [costInput EXCEPT !.counts = counts]
           /\ cost' = [called |-> TRUE,
                       value |-> calculateCost(costInput.given, costPricing,
                                    TokensObject(costInput.names, counts))]
           /\ raised' = [category |-> c, by |-> k, before |-> cost.value,
                         count |-> raised.count + 1]
  /\ UNCHANGED costPricing
  /\ UNCHANGED <<usageFile, dbInstance, usageCalls, lastSave, saverVars>>
  /\ UNCHANGED <<chatVars, executorVars, translatorVars, logVars, kiroVars,
                 providerVars>>

\* Any tokens object with counts up to MaxTokenCount under either naming,
\* or none, and any of the pricing answers.
InitCost ==
  /\ ChatIdle
  /\ usageFile = NoFile
  /\ dbInstance = NoDb
  /\ usageCalls = 0
  /\ lastSave = NoSave
  /\ costInput \in {NoCostInput}
       \cup [given : {TRUE}, names : DOMAIN CategoryNames,
             counts : [Categories -> 0..MaxTokenCount]]
  /\ costPricing \in Pricings
  /\ cost = NoCost
  /\ raised = NoRaise
  /\ SaversIdle
  /\ LogIdle
  /\ KiroIdle
  /\ ProvidersIdle
  /\ ExecutorIdle
  /\ TranslatorIdle

NextCost == CalculateCost \/ CalculateRaised

SpecCost == InitCost /\ [][NextCost]_vars

(************** appendRequestLog (usageDb.js) and its callers **************)
\* fs.appendFileSync(LOG_FILE, line)
AppendLine(lines, line) == Append(lines, line)
\* lines.slice(-200)
LastLines(lines, n) ==
  IF Len(lines) > n THEN SubSeq(lines, Len(lines) - n + 1, Len(lines)) ELSE lines
\* if (lines.length > 200) fs.writeFileSync(LOG_FILE, lines.slice(-200)...)
TrimLog_Oldest(lines) ==
  IF Len(lines) > LogMaxLines THEN SubSeq(lines, 1, LogMaxLines) ELSE lines
TrimLog(lines) ==
  IF Len(lines) > LogMaxLines THEN LastLines(lines, LogMaxLines) ELSE lines

\* handleChatCore, line 515: appendRequestLog({ ..., status: "PENDING" }) is
\* called and not awaited; the call runs up to its first await and the
\* handler goes on to executor.execute.
LogAttempts == LET Sum[n \in 0..NumRequests] ==
                     IF n = 0 THEN 0 ELSE Sum[n - 1] + logReq[n].attempt
               IN  Sum[NumRequests]

LogPending(r) ==
  /\ logReq[r].pc = "core"
  /\ LogAttempts < MaxLogAttempts
  /\ appendCalls' = appendCalls \cup {LogLine(r, logReq[r].attempt + 1, "PENDING")}
  /\ logReq' = [logReq EXCEPT ![r] = [pc |-> "execute", attempt |-> @.attempt + 1]]
  /\ UNCHANGED <<logFile, appended, chatVars, executorVars, translatorVars, usageVars, kiroVars,
               providerVars>>

\* handleChatCore, lines 552, 636: executor.execute has thrown (FAILED 502)
\* or answered with a non-streaming success (200 OK), and the terminal
\* line's call is started, again without being awaited; an error status
\* starts its FAILED line the same way (608); a
\* streaming success (663-693) starts none here. After a failure
\* handleSingleModelChat goes on to the next account, if there is one
\* (chat.js:100-111, 145-153).
TerminalStatuses == {"FAILED 502", "200 OK", "stream"}
Failed(status) == status = "FAILED 502"

LogTerminal(r) ==
  /\ logReq[r].pc = "execute"
  /\ \E status \in TerminalStatuses, nextAccount \in BOOLEAN :
       /\ appendCalls' =
            IF status = "stream" THEN appendCalls
            ELSE appendCalls \cup {LogLine(r, logReq[r].attempt, status)}
       /\ logReq' = [logReq EXCEPT ![r].pc =
                       IF Failed(status) /\ nextAccount THEN "core" ELSE "done"]
  /\ UNCHANGED <<logFile, appended, chatVars, executorVars, translatorVars, usageVars, kiroVars,
               providerVars>>

\* appendRequestLog, lines 226-237, reached when the awaits of lines 217-218
\* (import of localDb.js, getProviderConnections) have resolved: the line is
\* appended and the file trimmed in one synchronous run; an error of the
\* append is caught and logged. Calls resume in the order in which their
\* awaits resolve, whatever the order in which they were started.
AppendRequestLog ==
  /\ \E line \in appendCalls, appendOk \in BOOLEAN :
       /\ appendCalls' = appendCalls \ {line}
       /\ IF appendOk
          THEN /\ logFile' = TrimLog(AppendLine(logFile, line))
               /\ appended' = Append(appended, line)
          ELSE UNCHANGED <<logFile, appended>>
  /\ UNCHANGED <<logReq, chatVars, executorVars, translatorVars, usageVars, kiroVars,
               providerVars>>

\* log.txt starts empty or holding what earlier requests left, one line
\* short of the limit the trimming keeps.
InitLog ==
  /\ ChatIdle
  /\ UsageIdle
  /\ KiroIdle
  /\ ProvidersIdle
  /\ ExecutorIdle
  /\ TranslatorIdle
  /\ \E n \in {0, LogMaxLines - 1} :
       /\ logFile = OldLines(n)
       /\ appended = OldLines(n)
  /\ appendCalls = {}
  /\ logReq = [r \in Reqs |-> NoLogReq]

NextLog ==
  \/ \E r \in Reqs : LogPending(r) \/ LogTerminal(r)
  \/ AppendRequestLog

SpecLog == InitLog /\ [][NextLog]_vars

(******************* AWS EventStream frames (geminiHelper.js) **************)
\* TextEncoder / TextDecoder on the texts that occur.
Texts ==
  {":event-type", "assistantResponseEvent", "codeEvent", "toolUseEvent",
   "messageStopEvent", "meteringEvent", "contextUsageEvent",
   "{\"content\":\"a\"}", "{\"content\":\"b\"}",
   "{\"toolUseId\":\"t1\",\"name\":\"f\"}",
   "{\"toolUseId\":\"t1\",\"input\":\"{\\\"a\\\":1}\"}",
   "{\"toolUseId\":\"t2\",\"name\":\"g\",\"input\":{}}",
   "{}", "{\"usage\":1}"}

Utf8(text) ==
  CASE text = ":event-type" ->
         <<58, 101, 118, 101, 110, 116, 45, 116, 121, 112, 101>>
    [] text = "assistantResponseEvent" ->
         <<97, 115, 115, 105, 115, 116, 97, 110, 116, 82, 101, 115, 112,
           111, 110, 115, 101, 69, 118, 101, 110, 116>>
    [] text = "codeEvent" ->
         <<99, 111, 100, 101, 69, 118, 101, 110, 116>>
    [] text = "toolUseEvent" ->
         <<116, 111, 111, 108, 85, 115, 101, 69, 118, 101, 110, 116>>
    [] text = "messageStopEvent" ->
         <<109, 101, 115, 115, 97, 103, 101, 83, 116, 111, 112, 69, 118,
           101, 110, 116>>
    [] text = "meteringEvent" ->
         <<109, 101, 116, 101, 114, 105, 110, 103, 69, 118, 101, 110, 116>>
    [] text = "contextUsageEvent" ->
         <<99, 111, 110, 116, 101, 120, 116, 85, 115, 97, 103, 101, 69, 118,
           101, 110, 116>>
    [] text = "{\"content\":\"a\"}" ->
         <<123, 34, 99, 111, 110, 116, 101, 110, 116, 34, 58, 34, 97, 34,
           125>>
    [] text = "{\"content\":\"b\"}" ->
         <<123, 34, 99, 111, 110, 116, 101, 110, 116, 34, 58, 34, 98, 34,
           125>>
    [] text = "{\"toolUseId\":\"t1\",\"name\":\"f\"}" ->
         <<123, 34, 116, 111, 111, 108, 85, 115, 101, 73, 100, 34, 58, 34,
           116, 49, 34, 44, 34, 110, 97, 109, 101, 34, 58, 34, 102, 34,
           125>>
    [] text = "{\"toolUseId\":\"t1\",\"input\":\"{\\\"a\\\":1}\"}" ->
         <<123, 34, 116, 111, 111, 108, 85, 115, 101, 73, 100, 34, 58, 34,
           116, 49, 34, 44, 34, 105, 110, 112, 117, 116, 34, 58, 34, 123,
           92, 34, 97, 92, 34, 58, 49, 125, 34, 125>>
    [] text = "{\"toolUseId\":\"t2\",\"name\":\"g\",\"input\":{}}" ->
         <<123, 34, 116, 111, 111, 108, 85, 115, 101, 73, 100, 34, 58, 34,
           116, 50, 34, 44, 34, 110, 97, 109, 101, 34, 58, 34, 103, 34, 44,
           34, 105, 110, 112, 117, 116, 34, 58, 123, 125, 125>>
    [] text = "{}" ->
         <<123, 125>>
    [] text = "{\"usage\":1}" ->
         <<123, 34, 117, 115, 97, 103, 101, 34, 58, 49, 125>>

\* new TextDecoder().decode(bytes); bytes that are no text of the table come
\* out as a text no comparison matches and no JSON.parse accepts.
TextDecode(bytes) ==
  IF \E text \in Texts : Utf8(text) = bytes
  THEN CHOOSE text \in Texts : Utf8(text) = bytes
  ELSE "?"

\* big-endian integers
U32(n) == <<(n \div 16777216) % 256, (n \div 65536) % 256, (n \div 256) % 256, n % 256>>
U16(n) == <<(n \div 256) % 256, n % 256>>
\* data[i], 0-based; beyond the end JavaScript yields undefined
At(data, i) == IF i >= 0 /\ i < Len(data) THEN data[i + 1] ELSE 0
\* view.getUint32(offset, false)
getUint32(data, offset) ==
  At(data, offset) * 16777216 + At(data, offset + 1) * 65536
    + At(data, offset + 2) * 256 + At(data, offset + 3)
\* data.slice(from, to), 0-based, to exclusive
SliceBytes(data, from, to) ==
  IF Max(from, 0) >= Min(to, Len(data)) THEN <<>>
  ELSE SubSeq(data, Max(from, 0) + 1, Min(to, Len(data)))

\* A frame as the upstream sends it: prelude (total length, headers length,
\* prelude CRC), one string header :event-type, the payload, message CRC.
StringHeaderType == 7
PreludeLen == 12
CrcLen == 4
Crc == <<0, 0, 0, 0>>
Header(name, value) ==
  <<Len(Utf8(name))>> \o Utf8(name) \o <<StringHeaderType>>
    \o U16(Len(Utf8(value))) \o Utf8(value)
Frame(eventType, payloadText) ==
  LET headers == Header(":event-type", eventType)
      payload == IF payloadText = "" THEN <<>> ELSE Utf8(payloadText)
      totalLength == PreludeLen + Len(headers) + Len(payload) + CrcLen
  IN  U32(totalLength) \o U32(Len(headers)) \o Crc \o headers \o payload \o Crc

\* What JSON.parse yields, as far as the transformer reads it: content,
\* toolUseId, name and input, each possibly absent.
NoInput == [type |-> "undefined", text |-> ""]
Payload(content, toolUseId, name, input) ==
  [null |-> FALSE, content |-> content, toolUseId |-> toolUseId,
   name |-> name, input |-> input]
NullPayload == [Payload("", "", "", NoInput) EXCEPT !.null = TRUE]
\* JSON.parse(payloadStr), and { raw: payloadStr } when it throws
JsonParse(payloadStr) ==
  CASE payloadStr = "{\"content\":\"a\"}" -> Payload("a", "", "", NoInput)
    [] payloadStr = "{\"content\":\"b\"}" -> Payload("b", "", "", NoInput)
    [] payloadStr = "{\"toolUseId\":\"t1\",\"name\":\"f\"}" ->
         Payload("", "t1", "f", NoInput)
    [] payloadStr = "{\"toolUseId\":\"t1\",\"input\":\"{\\\"a\\\":1}\"}" ->
         Payload("", "t1", "", [type |-> "string", text |-> "{\"a\":1}"])
    [] payloadStr = "{\"toolUseId\":\"t2\",\"name\":\"g\",\"input\":{}}" ->
         Payload("", "t2", "g", [type |-> "object", text |-> "{}"])
    [] OTHER -> Payload("", "", "", NoInput)

\* parseEventFrame: the header loop
RECURSIVE ParseHeaders(_, _, _, _)
ParseHeaders(data, offset, headerEnd, headers) ==
  IF ~(offset < headerEnd /\ offset < Len(data)) THEN headers
  ELSE LET nameLen == At(data, offset)
           nameAt == offset + 1
       IN  IF nameAt + nameLen > Len(data) THEN headers
           ELSE LET name == TextDecode(SliceBytes(data, nameAt, nameAt + nameLen))
                    headerType == At(data, nameAt + nameLen)
                    valueLen == At(data, nameAt + nameLen + 1) * 256
                                  + At(data, nameAt + nameLen + 2)
                    valueAt == nameAt + nameLen + 3
                IN  IF headerType # StringHeaderType THEN headers
                    ELSE IF valueAt + valueLen > Len(data) THEN headers
                    ELSE ParseHeaders(
                           data, valueAt + valueLen, headerEnd,
                           Put(headers, name,
                               TextDecode(SliceBytes(data, valueAt, valueAt + valueLen))))

\* parseEventFrame(data)
parseEventFrame(data) ==
  LET headersLength == getUint32(data, 4)
      headers == ParseHeaders(data, PreludeLen, PreludeLen + headersLength,
                              [name \in {} |-> ""])
      payloadStart == PreludeLen + headersLength
      payloadEnd == Len(data) - CrcLen
  IN  [headers |-> headers,
       payload |-> IF payloadEnd > payloadStart
                   THEN JsonParse(TextDecode(SliceBytes(data, payloadStart, payloadEnd)))
                   ELSE NullPayload]

\* event.headers[":event-type"] || ""
EventType(event) ==
  IF ":event-type" \in DOMAIN event.headers THEN event.headers[":event-type"] ELSE ""

(****************** the chunks of transformEventStreamToSSE ****************)
\* An OpenAI chunk, as far as it varies: the delta and the finish_reason
\* ("null" for null); id, object, created, model and choices[0].index are
\* the same in every chunk of a stream.
NoToolCalls == <<>>
Delta(role, content, tool_calls) ==
  [role |-> role, content |-> content, tool_calls |-> tool_calls]
EmptyDelta == Delta("", "", NoToolCalls)
\* { index, id, type: "function", function: { name, arguments: "" } }
ToolStart(index, id, name) ==
  <<[index |-> index, id |-> id, name |-> name, arguments |-> ""]>>
\* { index, function: { arguments } }
ToolArguments(index, arguments) ==
  <<[index |-> index, id |-> "", name |-> "", arguments |-> arguments]>>
Chunk(delta, finish_reason) ==
  [data |-> "chunk", delta |-> delta, finish_reason |-> finish_reason]
\* "data: [DONE]\n\n"
Done == [data |-> "[DONE]", delta |-> EmptyDelta, finish_reason |-> "null"]
\* controller.enqueue(...), with the place that called it
Enqueue(queue, chunk, by) == Append(queue, [chunk |-> chunk, by |-> by])

\* finish_reason: state.hasToolCalls ? "tool_calls" : "stop"
FinishReason_Stop(st) == "stop"
FinishReason(st) == IF st.hasToolCalls THEN "tool_calls" ELSE "stop"
FinishChunk(st) == Chunk(EmptyDelta, FinishReason(st))

\* The locals of one run of pull(): buffer, chunkIndex, state, what it has
\* enqueued, whether it has set the timer, how many frames it has parsed.
Run(buf, idx, st, out, timerSet, parsed) ==
  [buffer |-> buf, chunkIndex |-> idx, state |-> st, out |-> out,
   timerSet |-> timerSet, parsed |-> parsed]

\* delta of a content chunk: assistantResponseEvent gives the role with the
\* first chunk, codeEvent never does.
ContentDelta(eventType, idx, content) ==
  IF eventType = "assistantResponseEvent" /\ idx = 0
  THEN Delta("assistant", content, NoToolCalls)
  ELSE Delta("", content, NoToolCalls)

\* toolIndex of a tool use: the next index for a new id, else the id's own
ToolIndex_Latest(st, toolCallId) ==
  IF toolCallId \notin DOMAIN st.seenToolIds THEN st.toolCallIndex
  ELSE st.toolCallIndex - 1
ToolIndex(st, toolCallId) ==
  IF toolCallId \notin DOMAIN st.seenToolIds THEN st.toolCallIndex
  ELSE st.seenToolIds[toolCallId]

\* the body of for (const singleToolUse of toolUses)
HandleToolUse(run, singleToolUse) ==
  LET toolCallId == IF singleToolUse.toolUseId # "" THEN singleToolUse.toolUseId
                    ELSE "call_now"
      isNewTool == toolCallId \notin DOMAIN run.state.seenToolIds
      toolIndex == ToolIndex(run.state, toolCallId)
      started ==
        IF isNewTool
        THEN [run EXCEPT
                !.state.toolCallIndex = @ + 1,
                !.state.seenToolIds = Put(@, toolCallId, toolIndex),
                !.out = Enqueue(@,
                          Chunk(Delta(IF run.chunkIndex = 0 THEN "assistant" ELSE "",
                                      "",
                                      ToolStart(toolIndex, toolCallId, singleToolUse.name)),
                                "null"),
                          "frame"),
                !.chunkIndex = @ + 1]
        ELSE run
  IN  IF singleToolUse.input.type \in {"string", "object"}
      THEN [started EXCEPT
              !.out = Enqueue(@,
                        Chunk(Delta("", "", ToolArguments(toolIndex, singleToolUse.input.text)),
                              "null"),
                        "frame"),
              !.chunkIndex = @ + 1]
      ELSE started

\* the handlers of one parsed event, lines 831-999
HandleEvent(run, event) ==
  LET eventType == EventType(event)
      payload == event.payload
  IN  CASE eventType \in {"assistantResponseEvent", "codeEvent"}
             /\ ~payload.null /\ payload.content # "" ->
             [run EXCEPT
                !.out = Enqueue(@, Chunk(ContentDelta(eventType, run.chunkIndex,
                                                      payload.content), "null"),
                                "frame"),
                !.chunkIndex = @ + 1]
        [] eventType = "toolUseEvent" /\ ~payload.null ->
             HandleToolUse([run EXCEPT !.state.hasToolCalls = TRUE], payload)
        [] eventType = "messageStopEvent" ->
             [run EXCEPT !.out = Enqueue(@, FinishChunk(run.state), "frame"),
                         !.state.finishEmitted = TRUE]
        [] eventType \in {"meteringEvent", "contextUsageEvent"}
             /\ ~run.state.endDetected ->
             [run EXCEPT !.state.endDetected = TRUE, !.timerSet = TRUE]
        [] OTHER -> run

\* if (totalLength < 16 || buffer.length < totalLength) break
FrameReady_Early(buf) == getUint32(buf, 0) >= MinFrameLen
FrameReady(buf) ==
  getUint32(buf, 0) >= MinFrameLen /\ Len(buf) >= getUint32(buf, 0)

\* one turn of while (buffer.length >= 16) { ... }: the first frame is cut
\* off the buffer, parsed and handled
ParseEvent(run) ==
  LET totalLength == getUint32(run.buffer, 0)
      eventData == SliceBytes(run.buffer, 0, totalLength)
      rest == SliceBytes(run.buffer, totalLength, Len(run.buffer))
  IN  HandleEvent([run EXCEPT !.buffer = rest, !.parsed = @ + 1],
                  parseEventFrame(eventData))

\* the loop, run until it breaks
RECURSIVE ParseEvents(_)
ParseEvents(run) ==
  IF Len(run.buffer) < MinFrameLen \/ ~FrameReady(run.buffer) THEN run
  ELSE ParseEvents(ParseEvent(run))

\* if (done): the finish chunk if none was emitted, then [DONE]
CloseChunks_NoFinish(queue, st) == Enqueue(queue, Done, "close")
CloseChunks(queue, st) ==
  Enqueue(IF st.finishEmitted THEN queue ELSE Enqueue(queue, FinishChunk(st), "close"),
          Done, "close")

\* The ends of the frames of a byte stream, by their total lengths.
RECURSIVE FrameEnds(_, _)
FrameEnds(bytes, from) ==
  IF from + PreludeLen > Len(bytes) THEN {}
  ELSE LET end == from + getUint32(SliceBytes(bytes, from, Len(bytes)), 0)
       IN  {end} \cup (IF end > from /\ end < Len(bytes) THEN FrameEnds(bytes, end) ELSE {})

\* Sizes of the next read: up to some frame end, or any number of bytes.
ReadSizes(wholeFrames) ==
  IF wholeFrames
  THEN {end - upstream.read : end \in {e \in FrameEnds(upstream.bytes, 0) : e > upstream.read}}
  ELSE 1..(Len(upstream.bytes) - upstream.read)

\* pull(controller) when reader.read() yields the next bytes: they are
\* appended to the buffer and every complete frame in it is handled.
PullValue(wholeFrames) ==
  /\ controller = "open"
  /\ upstream.read < Len(upstream.bytes)
  /\ \E size \in ReadSizes(wholeFrames) :
       \E run \in {ParseEvents(Run(buffer \o SliceBytes(upstream.bytes, upstream.read,
                                                        upstream.read + size),
                                   chunkIndex, state, enqueued, FALSE, framesParsed))} :
         /\ upstream' = [upstream EXCEPT !.read = @ + size]
         /\ buffer' = run.buffer
         /\ chunkIndex' = run.chunkIndex
         /\ state' = run.state
         /\ enqueued' = run.out
         /\ framesParsed' = run.parsed
         /\ timer' = IF run.timerSet THEN "pending" ELSE timer
         /\ splitSeen' = (splitSeen \/ run.buffer # <<>>)
  /\ UNCHANGED <<controller, chatVars, executorVars, translatorVars, usageVars, logVars, providerVars>>

\* pull(controller) when reader.read() yields done: the reader has closed
\* after the last byte.
PullDone ==
  /\ controller = "open"
  /\ upstream.read = Len(upstream.bytes)
  /\ enqueued' = CloseChunks(enqueued, state)
  /\ state' = [state EXCEPT !.finishEmitted = TRUE]
  /\ controller' = "closed"
  /\ UNCHANGED <<upstream, buffer, chunkIndex, timer, framesParsed, splitSeen,
                 chatVars, executorVars, translatorVars, usageVars, logVars, providerVars>>

\* pull(controller) when reader.read() rejects: catch, controller.error.
PullRejects ==
  /\ controller = "open"
  /\ controller' = "errored"
  /\ UNCHANGED <<upstream, buffer, chunkIndex, state, timer, enqueued,
                 framesParsed, splitSeen, chatVars, executorVars, translatorVars, usageVars, logVars, providerVars>>

\* cancel() { reader.cancel(); }: the consumer cancels the stream, which
\* is closed for it from then on, and pull is not called again.
Cancel ==
  /\ controller = "open"
  /\ controller' = "cancelled"
  /\ UNCHANGED <<upstream, buffer, chunkIndex, state, timer, enqueued,
                 framesParsed, splitSeen, chatVars, executorVars, translatorVars, usageVars, logVars, providerVars>>

\* The callback of setTimeout(..., 100): it runs between two runs of pull,
\* or after the last one.  It tests state.finishEmitted only: on a stream
\* that is no longer open its controller.enqueue call throws a TypeError
\* and queues nothing.
TimerFires ==
  /\ timer = "pending"
  /\ IF state.finishEmitted
     THEN /\ timer' = "fired"
          /\ UNCHANGED <<state, enqueued>>
     ELSE /\ state' = [state EXCEPT !.finishEmitted = TRUE]
          /\ IF controller = "open"
             THEN /\ enqueued' = Enqueue(enqueued, FinishChunk(state), "timer")
                  /\ timer' = "fired"
             ELSE /\ enqueued' = enqueued
                  /\ timer' = "threw"
  /\ UNCHANGED <<upstream, buffer, chunkIndex, controller, framesParsed,
                 splitSeen, chatVars, executorVars, translatorVars, usageVars, logVars, providerVars>>

\* The frames an upstream sends.
KiroFrames ==
  {Frame("assistantResponseEvent", "{\"content\":\"a\"}"),
   Frame("codeEvent", "{\"content\":\"b\"}"),
   Frame("toolUseEvent", "{\"toolUseId\":\"t1\",\"name\":\"f\"}"),
   Frame("toolUseEvent", "{\"toolUseId\":\"t1\",\"input\":\"{\\\"a\\\":1}\"}"),
   Frame("toolUseEvent", "{\"toolUseId\":\"t2\",\"name\":\"g\",\"input\":{}}"),
   Frame("messageStopEvent", "{}"),
   Frame("meteringEvent", "{\"usage\":1}")}

RECURSIVE Concat(_)
Concat(frames) == IF frames = <<>> THEN <<>> ELSE Head(frames) \o Concat(Tail(frames))
\* every stream of n frames
Streams(n) == {Concat(frames) : frames \in [1..n -> KiroFrames]}

KiroStart(streams) ==
  /\ upstream \in {[bytes |-> bytes, read |-> 0] : bytes \in streams}
  /\ buffer = <<>>
  /\ chunkIndex = 0
  /\ state = NewState
  /\ controller = "open"
  /\ timer = "unset"
  /\ enqueued = <<>>
  /\ framesParsed = 0
  /\ splitSeen = FALSE

\* Streams of up to MaxFrames frames, each read ending at a frame end.
InitKiro ==
  /\ ChatIdle
  /\ UsageIdle
  /\ LogIdle
  /\ ProvidersIdle
  /\ ExecutorIdle
  /\ TranslatorIdle
  /\ KiroStart(UNION {Streams(n) : n \in 0..MaxFrames})

NextKiro == PullValue(TRUE) \/ PullDone \/ PullRejects \/ Cancel \/ TimerFires

SpecKiro == InitKiro /\ [][NextKiro]_vars

\* Streams of MaxSplitFrames frames, read in pieces of any size.
InitKiroBytes ==
  /\ ChatIdle
  /\ UsageIdle
  /\ LogIdle
  /\ ProvidersIdle
  /\ ExecutorIdle
  /\ TranslatorIdle
  /\ KiroStart(Streams(MaxSplitFrames))

NextKiroBytes == PullValue(FALSE) \/ PullDone \/ TimerFires

SpecKiroBytes == InitKiroBytes /\ [][NextKiroBytes]_vars

(********************* GET and POST /api/providers *************************)
\* GET lists the connections, POST creates an API-key connection. The store
\* (@/models) is not part of the sources at hand: a connection is kept as
\* the record it was created with, under a new id, and the connections are
\* listed in creation order.
SecretValues == {"k1", "k2"}
SecretFields ==
  {"apiKey", "accessToken", "refreshToken", "idToken", "copilotToken"}

APIKEY_PROVIDERS == {"openai"}
NodeN1 == "openai-compatible-n1"
NodeGone == "openai-compatible-gone"
isOpenAICompatibleProvider(provider) == provider \in {NodeN1, NodeGone}
\* The provider nodes of the store: NodeGone names a node that is not there.
ProviderNodes ==
  [id \in {NodeN1} |->
     [found |-> TRUE, apiType |-> "chat", baseUrl |-> "https://n1/v1",
      name |-> "n1"]]
getProviderNodeById(id) ==
  IF id \in DOMAIN ProviderNodes THEN ProviderNodes[id] ELSE NoNode

\* A stored connection: the properties a record lacks are undefined.
Connection(id, provider, authType, name, data, secrets) ==
  [id |-> id, provider |-> provider, authType |-> authType, name |-> name,
   apiKey |-> secrets.apiKey, accessToken |-> secrets.accessToken,
   refreshToken |-> secrets.refreshToken, idToken |-> secrets.idToken,
   copilotToken |-> secrets.copilotToken,
   priority |-> 1, globalPriority |-> Null, defaultModel |-> Null,
   providerSpecificData |-> data, isActive |-> TRUE, testStatus |-> "unknown"]
NoSecrets == [f \in SecretFields |-> Undefined]
\* Connections of the OAuth flows, which POST /api/providers does not make:
\* one with an id token, and a GitHub one with the Copilot token the
\* translator routes read from the record (connection.copilotToken).
OAuthConnections ==
  {Connection(1, "claude", "oauth", "me", NullData,
              [NoSecrets EXCEPT !.accessToken = "k1", !.refreshToken = "k2",
                                !.idToken = "k1"]),
   Connection(1, "github", "oauth", "me", NullData,
              [NoSecrets EXCEPT !.accessToken = "k2", !.refreshToken = "k1",
                                !.copilotToken = "k1"])}

getProviderConnections(conns) == conns
getProviderConnectionsOf(conns, provider) ==
  SelectSeq(conns, LAMBDA c : c.provider = provider)
\* createProviderConnection: the new record, which is stored and returned.
createProviderConnection(conns, provider, name, apiKey, data) ==
  Connection(Len(conns) + 1, provider, "apikey", name, data,
             [NoSecrets EXCEPT !.apiKey = apiKey])

\* JSON.stringify of a record: undefined properties are left out.
Json(c) ==
  [f \in {g \in DOMAIN c : g \notin SecretFields \/ c[g] # Undefined} |-> c[f]]

\* connections.map(c => ({ ...c, apiKey: undefined, accessToken: undefined,
\*                         refreshToken: undefined, idToken: undefined }))
SafeConnection_KeepTokens(c) == [c EXCEPT !.apiKey = Undefined]
SafeConnection(c) ==
  [c EXCEPT !.apiKey = Undefined, !.accessToken = Undefined,
            !.refreshToken = Undefined, !.idToken = Undefined]
GETResponse(conns, ok) ==
  IF ok
  THEN NextResponseJson(
         [connections |->
            [i \in 1..Len(conns) |-> Json(SafeConnection(conns[i]))]], 200)
  ELSE NextResponseJson([error |-> "Failed to fetch providers"], 500)

\* GET /api/providers
GET ==
  /\ \E ok \in BOOLEAN :
       getResponse' = GETResponse(getProviderConnections(providerConnections), ok)
  /\ UNCHANGED <<providerConnections, posts>>
  /\ UNCHANGED <<chatVars, executorVars, translatorVars, usageVars, logVars, kiroVars>>

\* const result = { ...newConnection }; delete result.apiKey
Result_WithKey(newConnection) == newConnection
Result(newConnection) == [newConnection EXCEPT !.apiKey = Undefined]

PostBodies ==
  [provider : {Undefined, "bogus", "openai", NodeN1, NodeGone},
   apiKey : {Undefined} \cup SecretValues,
   name : {Undefined, "a", "b"}]
Answer(r, answer) ==
  posts' = [posts EXCEPT ![r].pc = "done", ![r].response = answer]
Failure(r) ==
  Answer(r, NextResponseJson([error |-> "Failed to create provider"], 500))

\* POST /api/providers up to its first reading of the store: the body and
\* its validation.
PostValidate(r) ==
  /\ posts[r].pc = "idle"
  /\ \A q \in Posts : q < r => posts[q].pc # "idle"
  /\ \E json \in PostBodies, ok \in BOOLEAN :
       IF ~ok
       THEN Failure(r)
       ELSE IF \/ json.provider = Undefined
               \/ /\ json.provider \notin APIKEY_PROVIDERS
                  /\ ~isOpenAICompatibleProvider(json.provider)
       THEN Answer(r, NextResponseJson([error |-> "Invalid provider"], 400))
       ELSE IF json.apiKey = Undefined
       THEN Answer(r, NextResponseJson([error |-> "API Key is required"], 400))
       ELSE IF json.name = Undefined
       THEN Answer(r, NextResponseJson([error |-> "Name is required"], 400))
       ELSE posts' = [posts EXCEPT
                        ![r].body = json,
                        ![r].pc = IF isOpenAICompatibleProvider(json.provider)
                                  THEN "node" ELSE "create"]
  /\ UNCHANGED <<providerConnections, getResponse>>
  /\ UNCHANGED <<chatVars, executorVars, translatorVars, usageVars, logVars, kiroVars>>

\* const node = await getProviderNodeById(provider)
PostGetNode(r) ==
  /\ posts[r].pc = "node"
  /\ \E ok \in BOOLEAN :
       LET node == getProviderNodeById(posts[r].body.provider)
       IN  IF ~ok
           THEN Failure(r)
           ELSE IF ~node.found
           THEN Answer(r, NextResponseJson(
                            [error |-> "OpenAI Compatible node not found"], 404))
           ELSE posts' = [posts EXCEPT ![r].node = node, ![r].pc = "existing"]
  /\ UNCHANGED <<providerConnections, getResponse>>
  /\ UNCHANGED <<chatVars, executorVars, translatorVars, usageVars, logVars, kiroVars>>

\* const existingConnections = await getProviderConnections({ provider })
PostGetExisting(r) ==
  /\ posts[r].pc = "existing"
  /\ \E ok \in BOOLEAN :
       LET existingConnections ==
             getProviderConnectionsOf(providerConnections, posts[r].body.provider)
           node == posts[r].node
       IN  IF ~ok
           THEN Failure(r)
           ELSE IF Len(existingConnections) > 0
           THEN Answer(r, NextResponseJson(
                  [error |-> "Only one connection is allowed for this OpenAI Compatible node"],
                  400))
           ELSE posts' = [posts EXCEPT
                            ![r].providerSpecificData =
                              [isNull |-> FALSE, apiType |-> node.apiType,
                               baseUrl |-> node.baseUrl, nodeName |-> node.name],
                            ![r].pc = "create"]
  /\ UNCHANGED <<providerConnections, getResponse>>
  /\ UNCHANGED <<chatVars, executorVars, translatorVars, usageVars, logVars, kiroVars>>

\* const newConnection = await createProviderConnection({...}), and the rest
\* of the handler: the result without the API key, the cloud sync, which has
\* no part in the response, and the 201 response.
PostCreate(r) ==
  /\ posts[r].pc = "create"
  /\ \E ok \in BOOLEAN :
       LET json == posts[r].body
           newConnection ==
             createProviderConnection(providerConnections, json.provider,
                                      json.name, json.apiKey,
                                      posts[r].providerSpecificData)
       IN  IF ~ok
           THEN Failure(r) /\ UNCHANGED providerConnections
           ELSE /\ providerConnections' =
                     Append(providerConnections, newConnection)
                /\ Answer(r, NextResponseJson(
                               [connection |-> Json(Result(newConnection))], 201))
  /\ UNCHANGED getResponse
  /\ UNCHANGED <<chatVars, executorVars, translatorVars, usageVars, logVars, kiroVars>>

InitProviders ==
  /\ ChatIdle
  /\ UsageIdle
  /\ LogIdle
  /\ KiroIdle
  /\ providerConnections \in {<<>>} \cup {<<c>> : c \in OAuthConnections}
  /\ posts = [r \in Posts |-> NoPost]
  /\ getResponse = NoAnswer
  /\ ExecutorIdle
  /\ TranslatorIdle

NextProviders ==
  \/ GET
  \/ \E r \in Posts : PostValidate(r)
  \/ \E r \in Posts : PostGetNode(r)
  \/ \E r \in Posts : PostGetExisting(r)
  \/ \E r \in Posts : PostCreate(r)

SpecProviders == InitProviders /\ [][NextProviders]_vars

(*************** DefaultExecutor.refreshCredentials (default.js) ***********)
\* x || y on strings and null
Falsy(x) == x \in {Undefined, Null, ""}
OrElse(x, y) == IF Falsy(x) THEN y ELSE x
Field(obj, name) == IF name \in DOMAIN obj THEN obj[name] ELSE Undefined

\* const refreshers = { claude, codex, qwen, iflow, gemini, kiro }
Refreshers == {"claude", "codex", "qwen", "iflow", "gemini", "kiro"}
ExecutorProviders == Refreshers \cup {"openai", "glm"}
\* The names of the token endpoint's answer: Kiro's are in camel case.
TokenNames(provider) ==
  IF provider = "kiro"
  THEN [access |-> "accessToken", refresh |-> "refreshToken",
        expires |-> "expiresIn"]
  ELSE [access |-> "access_token", refresh |-> "refresh_token",
        expires |-> "expires_in"]
\* The JSON a token endpoint answers with: a property is there unless its
\* value is undefined.
TokenJson(provider, access, refreshToken) ==
  LET names == TokenNames(provider)
      all == (names.access :> access) @@ (names.refresh :> refreshToken)
             @@ (names.expires :> "3600")
  IN  [n \in {k \in DOMAIN all : all[k] # Undefined} |-> all[n]]
TokenAnswers(provider) ==
  {TokenJson(provider, access, refreshToken) :
     access \in {Undefined, "a1"},
     refreshToken \in {Undefined, Null, "", "r1"}}

NullCredentials ==
  [isNull |-> TRUE, accessToken |-> Undefined, refreshToken |-> Undefined,
   expiresIn |-> Undefined]
\* return { accessToken: tokens.access_token,
\*          refreshToken: tokens.refresh_token || <the one sent>,
\*          expiresIn: tokens.expires_in }
RefreshedTokens_NoReuse(provider, tokens, sent) ==
  LET names == TokenNames(provider)
  IN  [isNull |-> FALSE, accessToken |-> Field(tokens, names.access),
       refreshToken |-> Field(tokens, names.refresh),
       expiresIn |-> Field(tokens, names.expires)]
RefreshedTokens(provider, tokens, sent) ==
  LET names == TokenNames(provider)
  IN  [isNull |-> FALSE, accessToken |-> Field(tokens, names.access),
       refreshToken |-> OrElse(Field(tokens, names.refresh), sent),
       expiresIn |-> Field(tokens, names.expires)]

RefreshCall(provider, refreshToken) ==
  [pc |-> "fetch", provider |-> provider, refreshToken |-> refreshToken,
   status |-> 0, tokens |-> <<>>, raised |-> FALSE, outcome |-> "none",
   result |-> NullCredentials]
\* try { ... return result } catch (error) { ...; return null }
Caught_Rethrown(call) ==
  [call EXCEPT !.pc = "done", !.raised = TRUE, !.outcome = "thrown",
               !.result = NullCredentials]
Caught(call) ==
  [call EXCEPT !.pc = "done", !.raised = TRUE, !.outcome = "returned",
               !.result = NullCredentials]
Returned(call, credentials_) ==
  [call EXCEPT !.pc = "done", !.outcome = "returned",
               !.result = credentials_]

\* refreshCredentials(credentials, log) up to the fetch of its refresher.
RefreshCredentials ==
  /\ refresh.pc = "idle"
  /\ \E provider \in ExecutorProviders,
        refreshToken \in {Undefined, "", "r0"} :
       LET call == RefreshCall(provider, refreshToken)
       IN  refresh' =
             IF Falsy(refreshToken) THEN Returned(call, NullCredentials)
             ELSE IF provider \notin Refreshers
             THEN Returned(call, NullCredentials)
             ELSE call
  /\ UNCHANGED <<providerNodes, built>>
  /\ UNCHANGED <<chatVars, usageVars, logVars, kiroVars, providerVars,
                 translatorVars>>

\* const response = await fetch(...); if (!response.ok) return null
RefreshFetch ==
  /\ refresh.pc = "fetch"
  /\ \E answer \in {0, 200, 201, 400, 401, 500} :
       refresh' =
         IF answer = 0 THEN Caught(refresh)
         ELSE IF answer < 200 \/ answer > 299
         THEN Returned([refresh EXCEPT !.status = answer], NullCredentials)
         ELSE [refresh EXCEPT !.pc = "json", !.status = answer]
  /\ UNCHANGED <<providerNodes, built>>
  /\ UNCHANGED <<chatVars, usageVars, logVars, kiroVars, providerVars,
                 translatorVars>>

\* const tokens = await response.json(); return { ... }
RefreshJson ==
  /\ refresh.pc = "json"
  /\ \/ refresh' = Caught(refresh)
     \/ \E tokens \in TokenAnswers(refresh.provider) :
          refresh' =
            Returned([refresh EXCEPT !.tokens = tokens],
                     RefreshedTokens(refresh.provider, tokens,
                                     refresh.refreshToken))
  /\ UNCHANGED <<providerNodes, built>>
  /\ UNCHANGED <<chatVars, usageVars, logVars, kiroVars, providerVars,
                 translatorVars>>

InitRefresh ==
  /\ ChatIdle
  /\ UsageIdle
  /\ LogIdle
  /\ KiroIdle
  /\ ProvidersIdle
  /\ ExecutorIdle
  /\ TranslatorIdle

NextRefresh == RefreshCredentials \/ RefreshFetch \/ RefreshJson

SpecRefresh == InitRefresh /\ [][NextRefresh]_vars

(******** DefaultExecutor.buildUrl / buildHeaders, KiroExecutor ************)
\* A string the code takes apart is a sequence of pieces, "/" and " " being
\* pieces of their own; an absent string and the empty one are both <<>>
\* (the code reads them with || and ?. only).
startsWith(s, piece) == Len(s) > 0 /\ s[1] = piece
includes(s, piece) == \E i \in DOMAIN s : s[i] = piece
\* s.replace(/\/$/, "")
StripSlash(s) ==
  IF Len(s) > 0 /\ s[Len(s)] = "/" THEN SubSeq(s, 1, Len(s) - 1) ELSE s
OrString(s, t) == IF s = <<>> THEN t ELSE s

OPENAI_COMPATIBLE_PREFIX == "openai-compatible-"
NodeId(apiType, uuid) == <<OPENAI_COMPATIBLE_PREFIX, apiType, "-", uuid>>
OpenAIBaseUrl == <<"https://api.openai.com", "/v1">>
SSE == <<"text/event-stream">>

\* PROVIDERS[provider] || PROVIDERS.openai: the base URL of a provider;
\* its configured headers are an input of the constructor.
StaticProviders ==
  {"openai", "claude", "glm", "kimi", "minimax", "gemini", "codex", "qwen"}
ProviderBaseUrl(provider) ==
  IF /\ Len(provider) = 1
     /\ provider[1] \in (StaticProviders \ {"openai"}) \cup {"kiro"}
  THEN <<"https://", provider[1], "/api">>
  ELSE OpenAIBaseUrl
ConfigHeaders ==
  {"User-Agent" :> <<"9router">>,
   ("User-Agent" :> <<"9router">>) @@ ("Accept" :> <<"application/json">>)}
KiroConfigHeaders ==
  ConfigHeaders
    \cup {("User-Agent" :> <<"9router">>)
            @@ ("Accept" :> <<"application/vnd.amazon.eventstream">>),
          ("User-Agent" :> <<"9router">>) @@ ("Accept" :> SSE)}
Config(provider, headers) ==
  [baseUrl |-> ProviderBaseUrl(provider), headers |-> headers]

\* headers[name] = value
SetHeader(headers, name, value) == (name :> value) @@ headers
Bearer(token) == <<"Bearer ", token>>

\* DefaultExecutor.buildUrl(model, stream, urlIndex = 0, credentials)
buildUrl(provider, config, model, stream, credentials_) ==
  IF startsWith(provider, OPENAI_COMPATIBLE_PREFIX)
  THEN LET baseUrl == OrString(credentials_.providerSpecificData.baseUrl,
                               OpenAIBaseUrl)
           normalized == StripSlash(baseUrl)
           path == IF includes(provider, "responses")
                   THEN <<"/responses">> ELSE <<"/chat/completions">>
       IN  normalized \o path
  ELSE IF provider \in {<<"claude">>, <<"glm">>, <<"kimi">>, <<"minimax">>}
  THEN config.baseUrl \o <<"?beta=true">>
  ELSE IF provider = <<"gemini">>
  THEN config.baseUrl \o <<"/", model, ":">>
         \o (IF stream THEN <<"streamGenerateContent", "?alt=sse">>
             ELSE <<"generateContent">>)
  ELSE config.baseUrl

\* DefaultExecutor.buildHeaders(credentials, stream = true)
buildHeaders_AlwaysAccept(provider, config, credentials_, stream) ==
  SetHeader(config.headers, "Accept", SSE)
buildHeaders(provider, config, credentials_, stream) ==
  LET headers ==
        config.headers @@ ("Content-Type" :> <<"application/json">>)
      key == credentials_.apiKey
      token == credentials_.accessToken
      withAuth ==
        IF provider = <<"gemini">>
        THEN IF key # Undefined
             THEN SetHeader(headers, "x-goog-api-key", <<key>>)
             ELSE SetHeader(headers, "Authorization", Bearer(token))
        ELSE IF provider = <<"claude">>
        THEN IF key # Undefined
             THEN SetHeader(headers, "x-api-key", <<key>>)
             ELSE SetHeader(headers, "Authorization", Bearer(token))
        ELSE IF provider \in {<<"glm">>, <<"kimi">>, <<"minimax">>}
        THEN SetHeader(headers, "x-api-key", <<key>>)
        ELSE SetHeader(headers, "Authorization",
                       Bearer(IF key # Undefined THEN key ELSE token))
  IN  IF stream THEN SetHeader(withAuth, "Accept", SSE) ELSE withAuth

\* KiroExecutor.buildHeaders(credentials, stream = true); uuid is uuidv4()
KiroBuildHeaders(config, credentials_, stream, uuid) ==
  LET headers ==
        SetHeader(SetHeader(config.headers,
                            "Amz-Sdk-Request", <<"attempt=1; max=3">>),
                  "Amz-Sdk-Invocation-Id", <<uuid>>)
  IN  IF credentials_.accessToken # Undefined
      THEN SetHeader(headers, "Authorization",
                     Bearer(credentials_.accessToken))
      ELSE headers
\* BaseExecutor.buildUrl(model, stream, urlIndex), which KiroExecutor keeps
KiroBuildUrl(config, model, stream) == config.baseUrl

NodeBaseUrls ==
  {<<>>, <<"https://n1", "/v1">>, <<"https://n1", "/v1", "/">>}
ExecutorCredentials ==
  [apiKey : {Undefined, "k1"}, accessToken : {Undefined, "t1"},
   providerSpecificData : [baseUrl : {<<>>}]]
NodeCredentials ==
  [apiKey : {"k1"}, accessToken : {Undefined},
   providerSpecificData : [baseUrl : NodeBaseUrls]]
DefaultExecutorProviders ==
  {<<p>> : p \in StaticProviders}
    \cup {NodeId(apiType, "u1") : apiType \in {"chat", "responses"}}
ExecutorModels == {"m1", "m2"}

NoBuilt == [built |-> FALSE, url |-> <<>>, headers |-> "User-Agent" :> <<>>]
Built(url, headers) == [built |-> TRUE, url |-> url, headers |-> headers]
Executor(kind, provider, config, model, credentials_) ==
  [executor |-> kind, provider |-> provider, config |-> config,
   model |-> model, credentials |-> credentials_,
   requests |-> [stream \in BOOLEAN |-> NoBuilt]]

\* new DefaultExecutor(provider), and what execute is called with
NewDefaultExecutor ==
  /\ built.executor = "none"
  /\ \E provider \in DefaultExecutorProviders, headers \in ConfigHeaders,
        model \in ExecutorModels :
       \E credentials_ \in
            IF startsWith(provider, OPENAI_COMPATIBLE_PREFIX)
            THEN NodeCredentials ELSE ExecutorCredentials :
         built' = Executor("default", provider, Config(provider, headers),
                           model, credentials_)
  /\ UNCHANGED <<providerNodes, refresh>>
  /\ UNCHANGED <<chatVars, usageVars, logVars, kiroVars, providerVars,
                 translatorVars>>

\* new KiroExecutor()
NewKiroExecutor ==
  /\ built.executor = "none"
  /\ \E headers \in KiroConfigHeaders, model \in ExecutorModels,
        credentials_ \in ExecutorCredentials :
       built' = Executor("kiro", <<"kiro">>, Config(<<"kiro">>, headers),
                         model, credentials_)
  /\ UNCHANGED <<providerNodes, refresh>>
  /\ UNCHANGED <<chatVars, usageVars, logVars, kiroVars, providerVars,
                 translatorVars>>

\* execute: const url = this.buildUrl(model, stream, 0, credentials);
\*          const headers = this.buildHeaders(credentials, stream)
BuildRequest ==
  /\ built.executor = "default"
  /\ \E stream \in BOOLEAN :
       /\ ~built.requests[stream].built
       /\ built' =
            [built EXCEPT !.requests[stream] =
               Built(buildUrl(built.provider, built.config, built.model,
                              stream, built.credentials),
                     buildHeaders(built.provider, built.config,
                                  built.credentials, stream))]
  /\ UNCHANGED <<providerNodes, refresh>>
  /\ UNCHANGED <<chatVars, usageVars, logVars, kiroVars, providerVars,
                 translatorVars>>

KiroBuildRequest ==
  /\ built.executor = "kiro"
  /\ \E stream \in BOOLEAN, uuid \in {"u1", "u2"} :
       /\ ~built.requests[stream].built
       /\ built' =
            [built EXCEPT !.requests[stream] =
               Built(KiroBuildUrl(built.config, built.model, stream),
                     KiroBuildHeaders(built.config, built.credentials,
                                      stream, uuid))]
  /\ UNCHANGED <<providerNodes, refresh>>
  /\ UNCHANGED <<chatVars, usageVars, logVars, kiroVars, providerVars,
                 translatorVars>>

InitExecutor == InitRefresh

NextExecutor ==
  \/ NewDefaultExecutor
  \/ NewKiroExecutor
  \/ BuildRequest
  \/ KiroBuildRequest

SpecExecutor == InitExecutor /\ [][NextExecutor]_vars

(****** POST /api/provider-nodes, PUT /api/provider-nodes/[id], buildUrl ****)
\* s.trim(): blanks are pieces of their own
RECURSIVE TrimStart(_)
TrimStart(s) ==
  IF Len(s) > 0 /\ s[1] = " " THEN TrimStart(Tail(s)) ELSE s
RECURSIVE TrimEnd(_)
TrimEnd(s) ==
  IF Len(s) > 0 /\ s[Len(s)] = " "
  THEN TrimEnd(SubSeq(s, 1, Len(s) - 1)) ELSE s
trim(s) == TrimEnd(TrimStart(s))

\* crypto.randomUUID(): a new value at every call
randomUUID(nodes) == <<"u1", "u2">>[Len(nodes) + 1]
NodeApiTypes == {Undefined, "chat", "responses", "bogus"}
NodeBaseUrlInputs ==
  {<<>>, <<" ">>, <<"https://n1", "/v1">>,
   <<" ", "https://n2", "/v1", "/", " ">>}
NodeNames == {<<>>, <<"n1">>, <<"n2">>}

ProviderNode(id, prefix, apiType, baseUrl, name) ==
  [id |-> id, type |-> "openai-compatible", prefix |-> prefix,
   apiType |-> apiType, baseUrl |-> baseUrl, name |-> name]
NodeAnswer(nodes, status) == [nodes |-> nodes, status |-> status]
NodeIndexes(id) ==
  {i \in DOMAIN providerNodes.nodes : providerNodes.nodes[i].id = id}
NodeConnections(id) ==
  {i \in DOMAIN providerConnections : providerConnections[i].provider = id}
NodeIds ==
  {NodeId(apiType, uuid) :
     apiType \in {"chat", "responses"}, uuid \in {"u1", "u2"}}

\* POST /api/provider-nodes, type openai-compatible
NodePost ==
  /\ Len(providerNodes.nodes) < MaxNodes
  /\ \E name \in NodeNames, prefix \in {<<>>, <<"p1">>},
        apiType \in NodeApiTypes, baseUrl \in NodeBaseUrlInputs :
       LET nodes == providerNodes.nodes
       IN  providerNodes' =
             IF trim(name) = <<>> \/ trim(prefix) = <<>>
             THEN NodeAnswer(nodes, 400)
             ELSE IF apiType \notin {"chat", "responses"}
             THEN NodeAnswer(nodes, 400)
             ELSE NodeAnswer(
                    Append(nodes,
                           ProviderNode(NodeId(apiType, randomUUID(nodes)),
                                        trim(prefix), apiType,
                                        trim(OrString(baseUrl, OpenAIBaseUrl)),
                                        trim(name))),
                    201)
  /\ UNCHANGED <<built, refresh>>
  /\ UNCHANGED <<chatVars, usageVars, logVars, kiroVars, providerVars,
                 translatorVars>>

\* POST /api/providers for a node, from its body to its response
NodeConnectionPost ==
  /\ \E provider \in NodeIds :
       IF NodeIndexes(provider) = {}
       THEN /\ providerNodes' = NodeAnswer(providerNodes.nodes, 404)
            /\ UNCHANGED providerConnections
       ELSE IF NodeConnections(provider) # {}
       THEN /\ providerNodes' = NodeAnswer(providerNodes.nodes, 400)
            /\ UNCHANGED providerConnections
       ELSE LET node ==
                  providerNodes.nodes[CHOOSE i \in NodeIndexes(provider) : TRUE]
            IN  /\ providerConnections' =
                     Append(providerConnections,
                            [id |-> Len(providerConnections) + 1,
                             provider |-> provider, authType |-> "apikey",
                             apiKey |-> "k1",
                             providerSpecificData |->
                               [apiType |-> node.apiType,
                                baseUrl |-> node.baseUrl,
                                nodeName |-> node.name]])
                /\ providerNodes' = NodeAnswer(providerNodes.nodes, 201)
  /\ UNCHANGED <<posts, getResponse>>
  /\ UNCHANGED <<built, refresh>>
  /\ UNCHANGED <<chatVars, usageVars, logVars, kiroVars, translatorVars>>

\* PUT /api/provider-nodes/[id]
NodePut ==
  /\ \E id \in NodeIds, name \in NodeNames,
        apiType \in NodeApiTypes, baseUrl \in NodeBaseUrlInputs :
       IF NodeIndexes(id) = {}
       THEN /\ providerNodes' = NodeAnswer(providerNodes.nodes, 404)
            /\ UNCHANGED providerConnections
       ELSE IF apiType \notin {"chat", "responses"} \/ trim(baseUrl) = <<>>
       THEN /\ providerNodes' = NodeAnswer(providerNodes.nodes, 400)
            /\ UNCHANGED providerConnections
       ELSE LET i == CHOOSE i \in NodeIndexes(id) : TRUE
                node == providerNodes.nodes[i]
                updated ==
                  [node EXCEPT !.name = OrString(trim(name), node.name),
                               !.apiType = apiType,
                               !.baseUrl = trim(baseUrl)]
            IN  /\ providerNodes' =
                     NodeAnswer([providerNodes.nodes EXCEPT ![i] = updated],
                                200)
                /\ providerConnections' =
                     [c \in DOMAIN providerConnections |->
                        IF providerConnections[c].provider = id
                        THEN [providerConnections[c] EXCEPT
                                !.providerSpecificData =
                                  [apiType |-> apiType,
                                   baseUrl |-> trim(baseUrl),
                                   nodeName |-> updated.name]]
                        ELSE providerConnections[c]]
  /\ UNCHANGED <<posts, getResponse>>
  /\ UNCHANGED <<built, refresh>>
  /\ UNCHANGED <<chatVars, usageVars, logVars, kiroVars, translatorVars>>

\* A chat request served with a node's connection:
\* new DefaultExecutor(connection.provider).buildUrl(model, stream, 0,
\* credentials)
NodeBuildUrl ==
  /\ \E c \in DOMAIN providerConnections, stream \in BOOLEAN :
       LET connection == providerConnections[c]
           credentials_ ==
             [apiKey |-> connection.apiKey, accessToken |-> Undefined,
              providerSpecificData |-> connection.providerSpecificData]
           config ==
             Config(connection.provider, "User-Agent" :> <<"9router">>)
           executor ==
             Executor("default", connection.provider, config, "m1",
                      credentials_)
       IN  built' =
             [executor EXCEPT !.requests[stream] =
                Built(buildUrl(connection.provider, config, "m1", stream,
                               credentials_),
                      buildHeaders(connection.provider, config,
                                   credentials_, stream))]
  /\ UNCHANGED <<providerNodes, refresh>>
  /\ UNCHANGED <<chatVars, usageVars, logVars, kiroVars, providerVars,
                 translatorVars>>

InitNodes == InitRefresh

NextNodes == NodePost \/ NodeConnectionPost \/ NodePut \/ NodeBuildUrl

SpecNodes == InitNodes /\ [][NextNodes]_vars

(************ convertMessages, buildKiroPayload (openai-to-kiro.old.js) *****)
\* Texts are sequences of pieces; the separators the code inserts are
\* pieces of their own.
RECURSIVE JoinLines(_)
JoinLines(texts) ==
  IF Len(texts) = 0 THEN <<>>
  ELSE IF Len(texts) = 1 THEN texts[1]
  ELSE texts[1] \o <<"\n">> \o JoinLines(Tail(texts))
SelectBlocks(blocks, type) == SelectSeq(blocks, LAMBDA b : b.type = type)

\* An OpenAI message: string content, or an array of blocks; an id that is
\* not there is <<>>.
StringContent(text) == [isString |-> TRUE, text |-> text, blocks |-> <<>>]
ArrayContent(blocks) == [isString |-> FALSE, text |-> <<>>, blocks |-> blocks]
TextBlock(text) ==
  [type |-> "text", text |-> text, tool_use_id |-> <<>>,
   content |-> <<>>]
ToolResultBlock(id, text) ==
  [type |-> "tool_result", text |-> <<>>, tool_use_id |-> id,
   content |-> text]
KiroMessage(role, content, calls, id) ==
  [role |-> role, content |-> content, tool_calls |-> calls,
   tool_call_id |-> id]
ToolCall(id, name) ==
  [id |-> id, function |-> [name |-> name, arguments |-> "{}"]]

\* typeof msg.content === "string" ? msg.content
\*   : msg.content.map(c => c.text || "").join("\n")
ContentText(content) ==
  IF content.isString THEN content.text
  ELSE JoinLines([i \in DOMAIN content.blocks |-> content.blocks[i].text])

NoContext ==
  [present |-> FALSE, hasToolResults |-> FALSE, toolResults |-> <<>>,
   hasTools |-> FALSE, tools |-> <<>>]
NoItem ==
  [kind |-> "null", content |-> <<>>, modelId |-> "", context |-> NoContext,
   toolUses |-> <<>>]
\* { userInputMessage: { content, modelId: "" } }
UserItem(content) == [NoItem EXCEPT !.kind = "user", !.content = content]
\* { assistantResponseMessage: { content, toolUses } }
AssistantItem(content, toolUses) ==
  [NoItem EXCEPT !.kind = "assistant", !.content = content,
                 !.toolUses = toolUses]
WithToolResults(item, toolResults) ==
  [item EXCEPT !.context.present = TRUE, !.context.hasToolResults = TRUE,
               !.context.toolResults = toolResults]
WithTools(item, tools) ==
  [item EXCEPT !.context.present = TRUE, !.context.hasTools = TRUE,
               !.context.tools = tools]

\* toolResultBlocks.map(block => ({ toolUseId, status, content }))
ToolResults(content) ==
  IF content.isString THEN <<>>
  ELSE LET blocks == SelectBlocks(content.blocks, "tool_result")
       IN  [i \in DOMAIN blocks |->
              [toolUseId |-> blocks[i].tool_use_id, status |-> "success",
               content |-> <<[text |-> blocks[i].content]>>]]
\* tools.map(t => ({ toolSpecification: { name, description, inputSchema } }))
ToolSpecification(t) ==
  [name |-> t.name,
   description |-> IF trim(t.description) = <<>>
                   THEN <<"Tool: ", t.name>> ELSE t.description,
   inputSchema |-> [json |-> t.parameters]]
ToolSpecifications(tools) ==
  [i \in DOMAIN tools |-> [toolSpecification |-> ToolSpecification(tools[i])]]

\* if (role === "user") { ... }
ConvertUser(msg, tools, history) ==
  LET content == ContentText(msg.content)
      toolResults == ToolResults(msg.content)
      finalContent ==
        IF Len(toolResults) > 0 THEN OrString(content, <<"Continue">>)
        ELSE content
      userMsg == UserItem(finalContent)
      withResults ==
        IF Len(toolResults) > 0 THEN WithToolResults(userMsg, toolResults)
        ELSE userMsg
  IN  IF Len(tools) > 0 /\ Len(history) = 0
      THEN WithTools(withResults, ToolSpecifications(tools))
      ELSE withResults
\* if (role === "assistant") { ... }
ConvertAssistant(msg) ==
  LET textContent ==
        IF msg.content.isString THEN trim(msg.content.text)
        ELSE LET blocks == SelectBlocks(msg.content.blocks, "text")
             IN  trim(JoinLines([i \in DOMAIN blocks |-> blocks[i].text]))
      toolUses ==
        [i \in DOMAIN msg.tool_calls |->
           [toolUseId |-> msg.tool_calls[i].id,
            name |-> msg.tool_calls[i].function.name,
            input |-> msg.tool_calls[i].function.arguments]]
  IN  AssistantItem(OrString(textContent, <<"Call tools">>), toolUses)

\* for (const msg of messages) { ... }: the history and the system prompt
RECURSIVE ConvertLoop(_, _, _, _)
ConvertLoop(messages, tools, history, systemPrompt) ==
  IF Len(messages) = 0
  THEN [history |-> history, systemPrompt |-> systemPrompt]
  ELSE LET msg == Head(messages)
           rest == Tail(messages)
       IN  IF msg.role = "tool"
           THEN ConvertLoop(rest, tools, history, systemPrompt)
           ELSE IF msg.role = "system"
           THEN ConvertLoop(rest, tools, history,
                            systemPrompt
                              \o (IF systemPrompt # <<>> THEN <<"\n">>
                                  ELSE <<>>)
                              \o ContentText(msg.content))
           ELSE IF msg.role = "user"
           THEN ConvertLoop(rest, tools,
                            Append(history, ConvertUser(msg, tools, history)),
                            systemPrompt)
           ELSE IF msg.role = "assistant"
           THEN ConvertLoop(rest, tools,
                            Append(history, ConvertAssistant(msg)),
                            systemPrompt)
           ELSE ConvertLoop(rest, tools, history, systemPrompt)

\* history.forEach(item => { ... })
CleanUp(item, model) ==
  IF item.kind # "user" THEN item
  ELSE LET noTools ==
             IF item.context.present /\ item.context.hasTools
             THEN [item EXCEPT !.context.hasTools = FALSE,
                               !.context.tools = <<>>]
             ELSE item
           noContext ==
             IF /\ noTools.context.present
                /\ ~noTools.context.hasTools
                /\ ~noTools.context.hasToolResults
             THEN [noTools EXCEPT !.context = NoContext]
             ELSE noTools
       IN  IF noContext.modelId = ""
           THEN [noContext EXCEPT !.modelId = model] ELSE noContext

\* Merge consecutive user messages
RECURSIVE MergeHistory(_, _)
MergeHistory(history, mergedHistory) ==
  IF Len(history) = 0 THEN mergedHistory
  ELSE LET current == Head(history)
           n == Len(mergedHistory)
       IN  IF current.kind = "user" /\ n > 0 /\ mergedHistory[n].kind = "user"
           THEN MergeHistory(
                  Tail(history),
                  [mergedHistory EXCEPT
                     ![n].content = @ \o <<"\n\n">> \o current.content])
           ELSE MergeHistory(Tail(history), Append(mergedHistory, current))

\* The index of the last user message of the history: currentMessage is
\* the object the loop pushed last as a user message.
LastUser(history) ==
  LET users == {i \in DOMAIN history : history[i].kind = "user"}
  IN  IF users = {} THEN 0 ELSE CHOOSE i \in users : \A j \in users : j <= i

\* history.length > 0 && history[history.length - 1].userInputMessage:
\* the last item is popped
Popped(pushed) == Len(pushed) > 0 /\ pushed[Len(pushed)].kind = "user"
\* firstHistoryItem's tools are copied to a currentMessage that has none
CopyTools(history, currentMessage) ==
  IF /\ Len(history) > 0
     /\ history[1].kind = "user"
     /\ history[1].context.hasTools
     /\ ~currentMessage.context.hasTools
  THEN WithTools(currentMessage, history[1].context.tools)
  ELSE currentMessage
\* currentMessage and the history item it was pushed as are one object
\* until it is popped: what is written to the one is written to the other
\* (shared is the item's index, 0 once popped).
FinishMessages(history, currentMessage, shared, model, systemPrompt) ==
  LET written ==
        IF shared # 0 THEN [history EXCEPT ![shared] = currentMessage]
        ELSE history
      cleanHistory == [i \in DOMAIN written |-> CleanUp(written[i], model)]
  IN  [history |-> MergeHistory(cleanHistory, <<>>),
       currentMessage |->
         IF shared # 0 THEN cleanHistory[shared] ELSE currentMessage,
       systemPrompt |-> systemPrompt]
AfterLoop(pushed, systemPrompt, model) ==
  LET j == LastUser(pushed)
      history ==
        IF Popped(pushed) THEN SubSeq(pushed, 1, Len(pushed) - 1) ELSE pushed
  IN  FinishMessages(history,
                     CopyTools(history, IF j = 0 THEN NoItem ELSE pushed[j]),
                     IF Popped(pushed) THEN 0 ELSE j, model, systemPrompt)
\* convertMessages(messages, tools, model)
convertMessages(messages, tools, model) ==
  LET loop == ConvertLoop(messages, tools, <<>>, <<>>)
  IN  AfterLoop(loop.history, loop.systemPrompt, model)

\* buildKiroPayload(model, body, stream, credentials); timestamp is
\* new Date().toISOString() and uuid is uuidv4()
buildKiroPayload(model, json, profileArn, timestamp, uuid) ==
  LET converted == convertMessages(json.messages, json.tools, model)
      currentMessage == converted.currentMessage
      content ==
        <<"[Context: Current time is ", timestamp, "]\n\n">>
          \o (IF converted.systemPrompt # <<>>
              THEN <<"[System: ">> \o converted.systemPrompt \o <<"]\n\n">>
              ELSE <<>>)
          \o currentMessage.content
  IN  [built |-> TRUE,
       conversationState |->
         [chatTriggerType |-> "MANUAL", conversationId |-> uuid,
          currentMessage |->
            [content |-> content, modelId |-> model, origin |-> "AI_EDITOR",
             context |-> currentMessage.context],
          history |-> converted.history],
       profileArn |-> profileArn,
       inferenceConfig |-> [maxTokens |-> 32000]]

\* The requests: every list of up to MaxMessages messages of six kinds, the
\* texts and ids of a message named after its position, with no, one or
\* two tools.
MessageKinds ==
  {"system", "user", "userResult", "assistant", "assistantCalls", "tool"}
Txt(prefix, i) == <<prefix, <<"1", "2", "3", "4", "5">>[i]>>
MessageOf(kind, i) ==
  IF kind = "system"
  THEN KiroMessage("system", StringContent(Txt("s", i)), <<>>, <<>>)
  ELSE IF kind = "user"
  THEN KiroMessage("user", StringContent(Txt("u", i)), <<>>, <<>>)
  ELSE IF kind = "userResult"
  THEN KiroMessage("user",
                   ArrayContent(<<TextBlock(Txt("u", i)),
                                  ToolResultBlock(Txt("c", i), Txt("r", i))>>),
                   <<>>, <<>>)
  ELSE IF kind = "assistant"
  THEN KiroMessage("assistant", StringContent(Txt("a", i)), <<>>, <<>>)
  ELSE IF kind = "assistantCalls"
  THEN KiroMessage("assistant", StringContent(<<>>),
                   <<ToolCall(Txt("c", i), "t1")>>, <<>>)
  ELSE KiroMessage("tool", StringContent(Txt("t", i)), <<>>, Txt("c", i))
KiroTool(name, description) ==
  [name |-> name, description |-> description,
   parameters |-> [type |-> "object", of |-> name]]
KiroToolLists ==
  {<<>>, <<KiroTool("t1", <<"first">>)>>,
   <<KiroTool("t1", <<"first">>), KiroTool("t2", <<" ">>)>>}
KiroBodies ==
  UNION {{[messages |-> [i \in 1..n |-> MessageOf(kinds[i], i)],
           tools |-> tools] :
            kinds \in [1..n -> MessageKinds], tools \in KiroToolLists} :
         n \in 0..MaxMessages}

\* translateRequest(OPENAI, KIRO, model, body, stream, credentials)
BuildKiroPayload ==
  /\ ~kiroPayload.built
  /\ \E profileArn \in {"", "arn1"} :
       kiroPayload' = buildKiroPayload("m1", kiroBody, profileArn, "ts", "u1")
  /\ UNCHANGED <<schema, cleaned, kiroBody>>
  /\ UNCHANGED <<chatVars, usageVars, logVars, kiroVars, providerVars,
                 executorVars>>

InitKiroRequest ==
  /\ ChatIdle
  /\ UsageIdle
  /\ LogIdle
  /\ KiroIdle
  /\ ProvidersIdle
  /\ ExecutorIdle
  /\ schema = NoJson
  /\ cleaned = NoJson
  /\ kiroBody \in KiroBodies
  /\ kiroPayload = NoPayload

NextKiroRequest == BuildKiroPayload

SpecKiroRequest == InitKiroRequest /\ [][NextKiroRequest]_vars

(************* cleanJSONSchemaForAntigravity (geminiHelper.js) *************)
\* A JSON value carries its type: a string has its text in s, a number its
\* value in n, an array its values in a, and an object the function from
\* its keys to their values in o.
JStr(s) == [NoJson EXCEPT !.t = "str", !.s = s]
JNum(n) == [NoJson EXCEPT !.t = "num", !.n = n]
JNull == [NoJson EXCEPT !.t = "null"]
JArr(values) == [NoJson EXCEPT !.t = "arr", !.a = values]
JObj(properties) == [NoJson EXCEPT !.t = "obj", !.o = properties]
EmptyObject == JObj(NoProperties)
\* value && typeof value === "object"
IsObject(x) == x.t \in {"obj", "arr"}
\* !!value
Truthy(x) ==
  IF x.t \in {"undefined", "null"} THEN FALSE
  ELSE IF x.t = "str" THEN x.s # ""
  ELSE IF x.t = "num" THEN x.n # 0
  ELSE TRUE
IsString(x, s) == x.t = "str" /\ x.s = s
\* obj[key], undefined when obj has no such property
Prop(x, key) ==
  IF x.t = "obj" /\ key \in DOMAIN x.o THEN x.o[key] ELSE NoJson
\* obj[key] = value
SetProp(x, key, value) == JObj((key :> value) @@ x.o)
\* delete obj[key]
DelProp(x, key) == JObj([k \in DOMAIN x.o \ {key} |-> x.o[k]])
\* Object.assign(obj, source)
ObjectAssign(x, source) == JObj(source.o @@ x.o)
\* String(v)
ToStr(x) ==
  IF x.t = "str" THEN x
  ELSE IF x.t = "num" THEN JStr(ToString(x.n))
  ELSE IF x.t = "null" THEN JStr("null")
  ELSE JStr("[object Object]")

\* convertConstToEnum(obj)
RECURSIVE convertConstToEnum(_)
convertConstToEnum(x) ==
  IF x.t = "arr"
  THEN JArr([i \in DOMAIN x.a |-> convertConstToEnum(x.a[i])])
  ELSE IF x.t = "obj"
  THEN LET obj ==
             IF Prop(x, "const").t # "undefined" /\ ~Truthy(Prop(x, "enum"))
             THEN DelProp(SetProp(x, "enum", JArr(<<Prop(x, "const")>>)),
                          "const")
             ELSE x
       IN  JObj([k \in DOMAIN obj.o |-> convertConstToEnum(obj.o[k])])
  ELSE x

\* convertEnumValuesToStrings(obj)
RECURSIVE convertEnumValuesToStrings(_)
convertEnumValuesToStrings(x) ==
  IF x.t = "arr"
  THEN JArr([i \in DOMAIN x.a |-> convertEnumValuesToStrings(x.a[i])])
  ELSE IF x.t = "obj"
  THEN LET enum == Prop(x, "enum")
           obj ==
             IF enum.t = "arr"
             THEN SetProp(x, "enum",
                          JArr([i \in DOMAIN enum.a |-> ToStr(enum.a[i])]))
             ELSE x
       IN  JObj([k \in DOMAIN obj.o |-> convertEnumValuesToStrings(obj.o[k])])
  ELSE x

\* for (const item of obj.allOf) { ... }: merged.properties
RECURSIVE MergedProperties(_, _)
MergedProperties(items, merged) ==
  IF Len(items) = 0 THEN merged
  ELSE LET properties == Prop(Head(items), "properties")
       IN  MergedProperties(
             Tail(items),
             IF ~Truthy(properties) THEN merged
             ELSE IF merged.t = "undefined" THEN ObjectAssign(EmptyObject, properties)
             ELSE ObjectAssign(merged, properties))
\* merged.required: the names of the items' required lists, each once
RECURSIVE PushNew(_, _)
PushNew(list, names) ==
  IF Len(names) = 0 THEN list
  ELSE PushNew(IF \E i \in DOMAIN list : list[i] = Head(names) THEN list
               ELSE Append(list, Head(names)),
               Tail(names))
RECURSIVE MergedRequired(_, _)
MergedRequired(items, merged) ==
  IF Len(items) = 0 THEN merged
  ELSE LET required == Prop(Head(items), "required")
       IN  MergedRequired(
             Tail(items),
             IF required.t # "arr" THEN merged
             ELSE IF merged.t = "undefined" THEN JArr(PushNew(<<>>, required.a))
             ELSE JArr(PushNew(merged.a, required.a)))
\* if (obj.allOf && Array.isArray(obj.allOf)) { ... }
MergeAllOfHere(x) ==
  LET allOf == Prop(x, "allOf")
  IN  IF allOf.t # "arr" THEN x
      ELSE LET properties == MergedProperties(allOf.a, NoJson)
               required == MergedRequired(allOf.a, NoJson)
               deleted == DelProp(x, "allOf")
               withProperties ==
                 IF properties.t = "undefined" THEN deleted
                 ELSE SetProp(deleted, "properties",
                              IF Prop(x, "properties").t = "obj"
                              THEN ObjectAssign(Prop(x, "properties"),
                                                properties)
                              ELSE properties)
           IN  IF required.t = "undefined" THEN withProperties
               ELSE SetProp(withProperties, "required",
                            JArr((IF Prop(x, "required").t = "arr"
                                  THEN Prop(x, "required").a ELSE <<>>)
                                   \o required.a))
\* mergeAllOf(obj)
RECURSIVE mergeAllOf(_)
mergeAllOf(x) ==
  IF x.t = "arr"
  THEN JArr([i \in DOMAIN x.a |-> mergeAllOf(x.a[i])])
  ELSE IF x.t = "obj"
  THEN LET obj == MergeAllOfHere(x)
       IN  JObj([k \in DOMAIN obj.o |-> mergeAllOf(obj.o[k])])
  ELSE x

\* The score selectBest gives an item.
Score(item) ==
  LET type == Prop(item, "type")
  IN  IF IsString(type, "object") \/ Truthy(Prop(item, "properties")) THEN 3
      ELSE IF IsString(type, "array") \/ Truthy(Prop(item, "items")) THEN 2
      ELSE IF Truthy(type) /\ ~IsString(type, "null") THEN 1
      ELSE 0
\* selectBest(items)
selectBest_Last(items) ==
  CHOOSE i \in DOMAIN items :
    /\ \A j \in DOMAIN items : Score(items[j]) <= Score(items[i])
    /\ \A j \in DOMAIN items : j > i => Score(items[j]) < Score(items[i])
selectBest(items) ==
  CHOOSE i \in DOMAIN items :
    /\ \A j \in DOMAIN items : Score(items[j]) <= Score(items[i])
    /\ \A j \in DOMAIN items : j < i => Score(items[j]) < Score(items[i])
\* obj.anyOf.filter(s => s && s.type !== "null")
NonNullSchemas(items) ==
  SelectSeq(items,
            LAMBDA s : Truthy(s) /\ ~IsString(Prop(s, "type"), "null"))
\* if (obj.anyOf && Array.isArray(obj.anyOf) && obj.anyOf.length > 0) { ... }
FlattenHere(x, key) ==
  LET branches == Prop(x, key)
  IN  IF branches.t # "arr" THEN x
      ELSE LET nonNullSchemas == NonNullSchemas(branches.a)
           IN  IF Len(nonNullSchemas) = 0 THEN x
               ELSE ObjectAssign(
                      DelProp(x, key),
                      nonNullSchemas[selectBest(nonNullSchemas)])
\* flattenAnyOfOneOf(obj)
RECURSIVE flattenAnyOfOneOf(_)
flattenAnyOfOneOf(x) ==
  IF x.t = "arr"
  THEN JArr([i \in DOMAIN x.a |-> flattenAnyOfOneOf(x.a[i])])
  ELSE IF x.t = "obj"
  THEN LET obj == FlattenHere(FlattenHere(x, "anyOf"), "oneOf")
       IN  JObj([k \in DOMAIN obj.o |-> flattenAnyOfOneOf(obj.o[k])])
  ELSE x

\* flattenTypeArrays(obj)
RECURSIVE flattenTypeArrays(_)
flattenTypeArrays(x) ==
  IF x.t = "arr"
  THEN JArr([i \in DOMAIN x.a |-> flattenTypeArrays(x.a[i])])
  ELSE IF x.t = "obj"
  THEN LET type == Prop(x, "type")
           nonNullTypes ==
             IF type.t = "arr"
             THEN SelectSeq(type.a, LAMBDA ty : ~IsString(ty, "null"))
             ELSE <<>>
           obj ==
             IF type.t # "arr" THEN x
             ELSE SetProp(x, "type",
                          IF Len(nonNullTypes) > 0 THEN nonNullTypes[1]
                          ELSE JStr("string"))
       IN  JObj([k \in DOMAIN obj.o |-> flattenTypeArrays(obj.o[k])])
  ELSE x

UNSUPPORTED_SCHEMA_CONSTRAINTS ==
  <<"minLength", "maxLength", "exclusiveMinimum", "exclusiveMaximum",
    "pattern", "minItems", "maxItems", "format",
    "default", "examples",
    "$schema", "$defs", "definitions", "const", "$ref",
    "additionalProperties", "propertyNames", "patternProperties",
    "anyOf", "oneOf", "allOf", "not",
    "dependencies", "dependentSchemas", "dependentRequired",
    "title", "if", "then", "else", "contentMediaType", "contentEncoding">>

\* A path is the sequence of the parts that path.split(".") gives; a part
\* is a key followed by the indexes written after it: "items[0]" is
\* <<"items", 0>>.
\* `${currentPath}[${index}]`
IndexPath(currentPath, index) ==
  IF Len(currentPath) = 0 THEN <<<<"", index>>>>
  ELSE [currentPath EXCEPT ![Len(currentPath)] = Append(@, index)]
\* walkAndCollectPaths(obj, currentPath, targetKey, paths)
RECURSIVE walkAndCollectPaths(_, _, _)
walkAndCollectPaths(x, currentPath, targetKey) ==
  IF x.t = "arr"
  THEN UNION {walkAndCollectPaths(x.a[i], IndexPath(currentPath, i - 1),
                                  targetKey) : i \in DOMAIN x.a}
  ELSE IF x.t = "obj"
  THEN UNION {(IF key = targetKey
               THEN {Append(currentPath, <<key>>)} ELSE {})
                \cup walkAndCollectPaths(x.o[key],
                                         Append(currentPath, <<key>>),
                                         targetKey) :
              key \in DOMAIN x.o}
  ELSE {}
\* deleteAtPath(obj, path): a part with an index in it names no property
RECURSIVE deleteAtPath(_, _)
deleteAtPath(x, path) ==
  LET part == Head(path)
  IN  IF Len(part) > 1 THEN x
      ELSE IF Len(path) = 1 THEN DelProp(x, part[1])
      ELSE IF ~Truthy(Prop(x, part[1])) THEN x
      ELSE IF Prop(x, part[1]).t # "obj" THEN x
      ELSE SetProp(x, part[1], deleteAtPath(x.o[part[1]], Tail(path)))
\* paths.sort(deepest first); for (const path of paths) deleteAtPath(...)
RECURSIVE DeletePaths(_, _)
DeletePaths(x, paths) ==
  IF paths = {} THEN x
  ELSE LET path == CHOOSE p \in paths : \A q \in paths : Len(q) <= Len(p)
       IN  DeletePaths(deleteAtPath(x, path), paths \ {path})
\* for (const keyword of UNSUPPORTED_SCHEMA_CONSTRAINTS) { ... }
RECURSIVE RemoveUnsupported(_, _)
RemoveUnsupported(x, keywords) ==
  IF Len(keywords) = 0 THEN x
  ELSE LET paths == walkAndCollectPaths(x, <<>>, Head(keywords))
       IN  IF paths = {} THEN RemoveUnsupported(x, Tail(keywords))
           ELSE RemoveUnsupported(DeletePaths(x, paths), Tail(keywords))

\* obj.required.filter(field => hasOwnProperty(obj.properties, field))
validRequired_All(x) == Prop(x, "required").a
validRequired(x) ==
  SelectSeq(Prop(x, "required").a,
            LAMBDA field : field.t = "str"
                           /\ field.s \in DOMAIN Prop(x, "properties").o)
\* cleanupRequired(obj)
RECURSIVE cleanupRequired(_)
cleanupRequired(x) ==
  IF x.t = "arr"
  THEN JArr([i \in DOMAIN x.a |-> cleanupRequired(x.a[i])])
  ELSE IF x.t = "obj"
  THEN LET obj ==
             IF /\ Prop(x, "required").t = "arr"
                /\ Prop(x, "properties").t = "obj"
             THEN IF Len(validRequired(x)) = 0 THEN DelProp(x, "required")
                  ELSE SetProp(x, "required", JArr(validRequired(x)))
             ELSE x
       IN  JObj([k \in DOMAIN obj.o |-> cleanupRequired(obj.o[k])])
  ELSE x

ReasonProperty ==
  JObj("reason" :>
         JObj(("type" :> JStr("string"))
                @@ ("description" :>
                      JStr("Brief explanation of why you are calling this tool"))))
\* addPlaceholders(obj)
RECURSIVE addPlaceholders(_)
addPlaceholders(x) ==
  IF x.t = "arr"
  THEN JArr([i \in DOMAIN x.a |-> addPlaceholders(x.a[i])])
  ELSE IF x.t = "obj"
  THEN LET properties == Prop(x, "properties")
           obj ==
             IF /\ IsString(Prop(x, "type"), "object")
                /\ \/ ~Truthy(properties)
                   \/ (properties.t = "obj" /\ DOMAIN properties.o = {})
             THEN SetProp(SetProp(x, "properties", ReasonProperty),
                          "required", JArr(<<JStr("reason")>>))
             ELSE x
       IN  JObj([k \in DOMAIN obj.o |-> addPlaceholders(obj.o[k])])
  ELSE x

\* cleanJSONSchemaForAntigravity(schema)
cleanJSONSchemaForAntigravity(x) ==
  IF ~IsObject(x) THEN x
  ELSE addPlaceholders(
         cleanupRequired(
           RemoveUnsupported(
             flattenTypeArrays(
               flattenAnyOfOneOf(
                 mergeAllOf(
                   convertEnumValuesToStrings(convertConstToEnum(x))))),
             UNSUPPORTED_SCHEMA_CONSTRAINTS)))

\* The schemas: seven leaves, and what twelve constructions build from a
\* schema, MaxSchemaDepth times over.
Typed(type) == JObj("type" :> JStr(type))
Keyed(key, value) == JObj(key :> value)
LeafSchemas ==
  {Typed("string"), Typed("null"), Typed("object"),
   JObj(("type" :> JStr("string")) @@ ("minLength" :> JNum(1))),
   Keyed("required", JArr(<<JStr("a")>>)),
   Keyed("const", JNum(1)),
   Keyed("type", JArr(<<JStr("null"), JStr("array")>>))}
BranchPartners == {Typed("null"), Typed("integer"), Typed("object")}
Composites(s) ==
  {Keyed("anyOf", JArr(<<s>>)), Keyed("oneOf", JArr(<<s>>)),
   Keyed("allOf", JArr(<<s>>)),
   JObj(("type" :> JStr("array")) @@ ("items" :> s)),
   JObj(("type" :> JStr("array")) @@ ("items" :> JArr(<<s>>))),
   JObj(("type" :> JStr("object"))
          @@ ("properties" :> JObj(("a" :> s) @@ ("title" :> Typed("string"))))
          @@ ("required" :> JArr(<<JStr("a"), JStr("b"), JStr("title")>>)))}
    \cup {Keyed("anyOf", JArr(<<s, p>>)) : p \in BranchPartners}
    \cup {Keyed("anyOf", JArr(<<p, s>>)) : p \in BranchPartners}
RECURSIVE SchemasOfDepth(_)
SchemasOfDepth(n) ==
  IF n = 0 THEN LeafSchemas
  ELSE SchemasOfDepth(n - 1)
         \cup UNION {Composites(s) : s \in SchemasOfDepth(n - 1)}

\* cleaned = cleanJSONSchemaForAntigravity(schema)
Clean ==
  /\ cleaned = NoJson
  /\ cleaned' = cleanJSONSchemaForAntigravity(schema)
  /\ UNCHANGED <<schema, kiroBody, kiroPayload>>
  /\ UNCHANGED <<chatVars, usageVars, logVars, kiroVars, providerVars,
                 executorVars>>

\* The output is given to the sanitizer again.
CleanAgain ==
  /\ cleaned # NoJson
  /\ schema # cleaned
  /\ schema' = cleaned
  /\ cleaned' = cleanJSONSchemaForAntigravity(cleaned)
  /\ UNCHANGED <<kiroBody, kiroPayload>>
  /\ UNCHANGED <<chatVars, usageVars, logVars, kiroVars, providerVars,
                 executorVars>>

InitSanitizer ==
  /\ ChatIdle
  /\ UsageIdle
  /\ LogIdle
  /\ KiroIdle
  /\ ProvidersIdle
  /\ ExecutorIdle
  /\ schema \in SchemasOfDepth(MaxSchemaDepth)
  /\ cleaned = NoJson
  /\ kiroBody = NoKiroBody
  /\ kiroPayload = NoPayload

NextSanitizer == Clean \/ CleanAgain

SpecSanitizer == InitSanitizer /\ [][NextSanitizer]_vars

(******************************* properties ********************************)
Positions(seq, x) == {i \in DOMAIN seq : seq[i] = x}
Count(seq, x) == Cardinality(Positions(seq, x))

\* The step in which request r leaves handleChatCore's result behind.
Decides(r) == pc[r] = "decide" /\ pc'[r] # "decide"
\* The step in which handleChatCore returns to the account loop.
CoreReturns(r) == pc[r] # "decide" /\ pc'[r] = "decide"
\* The step in which getProviderCredentials returns a connection.
Selects(r) == pc[r] = "select" /\ pc'[r] = "core"
\* The step in which handleSingleModelChat returns a response.
Returns(r) == pc[r] # "done" /\ pc'[r] = "done" /\ response'[r].kind # "thrown"

\* C1: in the account loop, an attempt whose result is not a success either
\* (policy says fallback) marks the attempted connection unavailable with
\* the policy's cooldown, the first 100 characters of the error and the
\* status, and goes on to the next selection without having selected in
\* between, or (policy says no fallback) returns result.response as it is,
\* marks nothing and attempts no further account.
C1_FallbackMarksElseSurface ==
  [][\A r \in Reqs :
       /\ (Decides(r) /\ ~result[r].success) =>
            LET res == result[r]
                c == credentials[r].connectionId
                fb == checkFallbackError(res.status, res.error)
                marked == connections'[c]
            IN IF fb.shouldFallback
               THEN /\ marked.testStatus = "error"
                    /\ marked.cooldownUntil = now + fb.cooldownMs
                    /\ Len(marked.lastError) = Min(Len(res.error), 100)
                    /\ marked.lastError = SubSeq(res.error, 1, Len(marked.lastError))
                    /\ marked.errorCode = res.status
                    /\ pc'[r] = "select"
                    /\ attempts'[r].conns = attempts[r].conns
               ELSE /\ pc'[r] = "done"
                    /\ response'[r] = res.response
                    /\ connections' = connections
       /\ (pc[r] = "done" => pc'[r] = "done")]_vars

\* A failed attempt with an error longer than 100 characters has been
\* marked with its first 100 and the loop is at the next selection.
C1_Witness ==
  \E r \in Reqs :
    /\ pc[r] = "select"
    /\ excludeConnectionId[r] # NoConn
    /\ Len(lastError[r]) > 100
    /\ Len(connections[excludeConnectionId[r]].lastError) = 100
    /\ connections[excludeConnectionId[r]].cooldownUntil > now

EndsNoCredentials(r) ==
  /\ pc[r] = "select"
  /\ attempts[r].conns = <<>>
  /\ response'[r] = ErrorResponse(400, NoCredentialsMessage)
EndsAllFailed(r) ==
  /\ pc[r] = "select"
  /\ attempts[r].conns # <<>>
  /\ attempts[r].failures = Len(attempts[r].conns)
  /\ response'[r].status = 503
  /\ response'[r].error = attempts[r].lastFailure
EndsSuccess(r) ==
  /\ pc[r] = "decide"
  /\ result[r].success
  /\ response'[r] = result[r].response
  /\ attempts[r].failures = Len(attempts[r].conns) - 1
EndsNoFallback(r) ==
  /\ pc[r] = "decide"
  /\ ~result[r].success
  /\ ~checkFallbackError(result[r].status, result[r].error).shouldFallback
  /\ attempts[r].failures = Len(attempts[r].conns) - 1
  /\ response'[r] = result[r].response
EndsInvalidModel(r) ==
  /\ pc[r] = "start"
  /\ response'[r] = ErrorResponse(400, InvalidModelMessage)
ExactlyOne(bs) == Cardinality({i \in DOMAIN bs : bs[i]}) = 1

Events(r) == core[r].events
\* The second executor.execute of the invocation, if there is one.
SecondExecute(r) ==
  {j \in Positions(Events(r), "execute") :
     \E i \in Positions(Events(r), "execute") : i < j}

\* C5 as stated: within one invocation execute is called at most twice;
\* the second call only after a first response of 401 or 403 and a refresh
\* that returned a new access token, with onCredentialsRefreshed invoked
\* exactly once, before it; otherwise no refresh and no second call.
C5_SecondCallNeedsAccessToken ==
  \A r \in Reqs :
    /\ Count(Events(r), "execute") <= 2
    /\ \A j \in SecondExecute(r) :
         /\ j > 4
         /\ Events(r)[j - 4] = "execute"
         /\ Events(r)[j - 3] \in {"response:401", "response:403"}
         /\ Events(r)[j - 2] = "refresh:accessToken"
         /\ Events(r)[j - 1] = "onCredentialsRefreshed"

\* C5, amended: within one invocation execute is called at most twice; the
\* second call happens only after a first response of 401 or 403 and a
\* refresh that returned an access token or a copilot token, with
\* onCredentialsRefreshed invoked exactly once, before that call; for any
\* other first status there is no refresh, for a refresh without a token
\* no callback, and in both cases execute is called exactly once.
C5_SecondCallNeedsToken ==
  \A r \in Reqs :
    LET ev == Events(r)
        refreshes == {i \in DOMAIN ev :
                        ev[i] \in {"refresh:accessToken", "refresh:copilotToken",
                                   "refresh:noToken", "refresh:failed"}}
    IN /\ Count(ev, "execute") <= 2
       /\ (pc[r] = "decide" /\ ev # <<>> => Count(ev, "execute") >= 1)
       /\ \A j \in SecondExecute(r) :
            /\ j > 4
            /\ ev[j - 4] = "execute"
            /\ ev[j - 3] \in {"response:401", "response:403"}
            /\ ev[j - 2] \in {"refresh:accessToken", "refresh:copilotToken"}
            /\ ev[j - 1] = "onCredentialsRefreshed"
       /\ \A i \in refreshes :
            /\ ev[i - 1] \in {"response:401", "response:403"}
            /\ ev[i - 2] = "execute"
            /\ Cardinality(refreshes) = 1
       /\ Count(ev, "onCredentialsRefreshed") <= 1
       /\ \A k \in Positions(ev, "onCredentialsRefreshed") :
            /\ ev[k - 1] \in {"refresh:accessToken", "refresh:copilotToken"}
            /\ (pc[r] # "retry" => k < Len(ev) /\ ev[k + 1] = "execute")

\* A 401, a refresh that returned an access token, the callback, and the
\* second call, which succeeded.
C5_Witness ==
  \E r \in Reqs :
    /\ Count(Events(r), "execute") = 2
    /\ Count(Events(r), "refresh:accessToken") = 1
    /\ pc[r] = "decide"
    /\ result[r].success

ThrownStatus(name) == IF name = "AbortError" THEN 499 ELSE 502
PendingOf(r) ==
  Get(pendingRequests.byModel, ModelKey(Model, Provider))
\* The outcome claimed for a throw of executor.execute.
ThrowOutcome(r, name) ==
  /\ ~result[r].success
  /\ result[r].status = ThrownStatus(name)
  /\ result[r].response.status = ThrownStatus(name)
  /\ Count(Events(r), "track-") = 1
  /\ PendingOf(r) = 0
  /\ Count(Events(r), FailedLine(ThrownStatus(name))) = 1

\* C6 as stated: when executor.execute throws, handleChatCore returns an
\* error result with status 499 for an AbortError and 502 otherwise, the
\* in-flight counter decremented once and a FAILED line with that status
\* logged.
C6_AnyThrow ==
  \A r \in Reqs : \A name \in {"AbortError", "Error"} :
    (pc[r] = "decide" /\ Count(Events(r), "throw:" \o name) > 0) =>
      ThrowOutcome(r, name)

\* C6, amended: when the first executor.execute of an invocation throws,
\* handleChatCore returns an error result with status 499 for an
\* AbortError and 502 otherwise, the in-flight counter decremented once
\* and a FAILED line with that status logged.  (A throw of the second
\* call, after a refresh, is caught: the result is that of the first
\* response.)
C6_FirstThrow ==
  \A r \in Reqs : \A name \in {"AbortError", "Error"} :
    /\ (/\ pc[r] = "decide"
        /\ Len(Events(r)) >= 4
        /\ Events(r)[3] = "execute"
        /\ Events(r)[4] = "throw:" \o name) => ThrowOutcome(r, name)
    /\ (/\ pc[r] = "decide"
        /\ Len(Events(r)) >= 8
        /\ Events(r)[8] = "throw:" \o name) =>
          /\ ~result[r].success
          /\ result[r].status \in {401, 403}
          /\ Count(Events(r), "track-") = 1

\* The client went away during the first call: 499.
C6_Witness ==
  \E r \in Reqs :
    /\ pc[r] = "decide"
    /\ Events(r) = <<"track+", "log:PENDING", "execute", "throw:AbortError",
                     "track-", "log:FAILED 499">>
    /\ result[r].status = 499

\* C7: when an upstream 429 carries a parsed retryAfterMs, the cooldown
\* with which the handler marks the account unavailable equals that
\* retryAfterMs.
C7_RetryAfterIsTheCooldown ==
  [][\A r \in Reqs :
       (/\ Decides(r)
        /\ ~result[r].success
        /\ result[r].status = 429
        /\ result[r].retryAfterMs > 0) =>
          connections'[credentials[r].connectionId].cooldownUntil
            = now + result[r].retryAfterMs]_vars

\* Every counter of pendingRequests with the observer's values for its
\* key: <<counter, net, low>>.
Counters ==
  {<<pendingRequests.byModel[k], netCalls.net.byModel[k],
     netCalls.low.byModel[k]>> : k \in DOMAIN pendingRequests.byModel}
  \cup UNION {{<<pendingRequests.byAccount[c][k], netCalls.net.byAccount[c][k],
                 netCalls.low.byAccount[c][k]>> :
                 k \in DOMAIN pendingRequests.byAccount[c]} :
              c \in DOMAIN pendingRequests.byAccount}

\* C8 as stated: after any sequence of trackPendingRequest calls every
\* counter is >= 0 and equals the number of started=true calls minus the
\* number of started=false calls for its key.
C8_CounterIsStartedMinusFinished ==
  \A t \in Counters : t[1] >= 0 /\ t[1] = t[2]

\* C8, amended: after any sequence of calls every counter is >= 0 and
\* equals (started=true calls minus started=false calls for its key) minus
\* the lowest value that difference has taken (0 or less); it equals the
\* difference itself as long as the started=false calls for the key never
\* outnumbered the started=true calls.
C8_CounterIsClampedDifference ==
  \A t \in Counters :
    /\ t[1] >= 0
    /\ t[1] = t[2] - t[3]
    /\ (t[3] = 0 => t[1] = t[2])

\* A key whose first call was started=false and which has since been
\* started more often than finished: the counter is above the difference.
C8_Witness ==
  \E k \in DOMAIN pendingRequests.byModel :
    /\ netCalls.low.byModel[k] < 0
    /\ pendingRequests.byModel[k] > netCalls.net.byModel[k]
    /\ pendingRequests.byModel[k] = 2

AllCountersZero ==
  /\ \A k \in DOMAIN pendingRequests.byModel : pendingRequests.byModel[k] = 0
  /\ \A c \in DOMAIN pendingRequests.byAccount :
       \A k \in DOMAIN pendingRequests.byAccount[c] :
         pendingRequests.byAccount[c][k] = 0
\* Request r is not inside a handleChatCore invocation, or inside one that
\* is about to return, or has returned, without a streaming body.
NotInFlight(r) ==
  \/ pc[r] \in {"start", "select", "core", "json"}
  \/ pc[r] = "decide" /\ result[r].response.kind # "sse"
  \/ pc[r] = "done" /\ response[r].kind # "sse"

\* C9: every handleChatCore invocation that returns without a streaming
\* body (bypass, execute exception, upstream non-ok also after a failed
\* refresh or retry, non-streaming success) leaves the in-flight counters
\* as they were on entry: one increment, matched by exactly one
\* decrement, or none of either on the bypass path.
C9_CountersRestored ==
  /\ (\A r \in Reqs : NotInFlight(r)) => AllCountersZero
  /\ \A r \in Reqs :
       /\ (pc[r] = "decide" /\ result[r].response.kind # "sse") =>
            /\ Count(Events(r), "track+") = Count(Events(r), "track-")
            /\ Count(Events(r), "track+") =
                 (IF result[r].response.kind = "bypass" THEN 0 ELSE 1)
       /\ pc[r] \in {"execute", "refresh", "retry", "check"} =>
            /\ Count(Events(r), "track+") = 1
            /\ Count(Events(r), "track-") = 0
            /\ pendingRequests.byAccount[credentials[r].connectionId]
                 [ModelKey(Model, Provider)] >= 1

\* A non-ok response after a failed refresh: counted once, released once.
C9_Witness ==
  \E r \in Reqs :
    /\ pc[r] = "decide"
    /\ ~result[r].success
    /\ Count(Events(r), "refresh:failed") = 1
    /\ Count(Events(r), "track-") = 1
    /\ credentials[r].connectionId \in DOMAIN pendingRequests.byAccount
    /\ pendingRequests.byAccount[credentials[r].connectionId]
         [ModelKey(Model, Provider)] = 0

HasUsage(responseBody) ==
  responseBody.usage.present \/ responseBody.usageMetadata.present
SavedAfterJson(r) ==
  \A i \in Positions(Events(r), "saveRequestUsage") :
    \E j \in Positions(Events(r), "json") : j < i

\* C10 as stated: for every request that ends with a successful
\* non-streaming response saveRequestUsage is invoked exactly once, after
\* the upstream JSON body has been read; zero times for attempts that end
\* in an error result.
C10_SavedOncePerJsonSuccess ==
  \A r \in Reqs :
    pc[r] = "decide" =>
      IF result[r].success
      THEN result[r].response.kind = "json" =>
             /\ saves[r] = 1
             /\ Count(Events(r), "saveRequestUsage") = 1
             /\ SavedAfterJson(r)
      ELSE Count(Events(r), "saveRequestUsage") = 0 /\ saves[r] = 0

\* C10, amended: for every request that ends with a successful
\* non-streaming response saveRequestUsage is invoked at most once, after
\* the upstream JSON body has been read: exactly once when that body
\* carries a usage or usageMetadata object, not at all when it carries
\* neither; zero times for attempts that end in an error result.
C10_SavedOnceWhenUsage ==
  \A r \in Reqs :
    pc[r] = "decide" =>
      IF result[r].success
      THEN result[r].response.kind = "json" =>
             LET n == IF HasUsage(core[r].jsonBody) THEN 1 ELSE 0
             IN /\ saves[r] = n
                /\ Count(Events(r), "saveRequestUsage") = n
                /\ SavedAfterJson(r)
      ELSE Count(Events(r), "saveRequestUsage") = 0 /\ saves[r] = 0

\* A non-streaming success on the second account, with Gemini-shaped
\* usage: saved once, in that attempt.
C10_Witness ==
  \E r \in Reqs :
    /\ pc[r] = "decide"
    /\ result[r].success
    /\ result[r].response.kind = "json"
    /\ core[r].jsonBody = GeminiBody
    /\ Len(attempts[r].conns) = 2
    /\ saves[r] = 1

(*************************** the usage history *****************************)
IsPrefix(s, t) == Len(s) <= Len(t) /\ SubSeq(t, 1, Len(s)) = s
\* db.data.history as an array (what getUsageHistory returns)
History(db) == IF db.data.isArray THEN db.data.history ELSE <<>>
\* the history usage.json holds
PersistedHistory(file) ==
  IF file.kind = "json" /\ file.data.isArray THEN file.data.history ELSE <<>>
\* the history a call finds: the loaded one, else the one it loads
HistoryFound == IF dbInstance.exists THEN History(dbInstance)
                ELSE PersistedHistory(usageFile)
SaveStep == usageCalls' = usageCalls + 1

LinesOf(r) == SelectSeq(logFile, LAMBDA line : line.req = r)
\* line a was issued before line b by their request
IssuedBefore(a, b) ==
  \/ a.attempt < b.attempt
  \/ a.attempt = b.attempt /\ a.status = "PENDING" /\ b.status # "PENDING"

\* C12: the lines of one request stand in log.txt in the order in which the
\* request issued them: within an attempt PENDING before the terminal line,
\* and the lines of an earlier attempt before those of a later one.
C12_LinesInIssueOrder ==
  \A r \in Reqs :
    \A i, j \in DOMAIN LinesOf(r) :
      i < j => IssuedBefore(LinesOf(r)[i], LinesOf(r)[j])

\* C13: every appendRequestLog that has written its line leaves log.txt with
\* at most 200 lines, which are the lines written last, in the order in
\* which they were written, the call's own line at the end.
C13_LastLinesKept ==
  [][appended' # appended =>
       /\ Len(logFile') <= LogMaxLines
       /\ logFile' = LastLines(appended', LogMaxLines)
       /\ \A line \in appendCalls \ appendCalls' :
            logFile'[Len(logFile')] = line]_vars

\* Lines of both requests have been written, in turn, to a full log.txt,
\* and older lines have been trimmed away.
C13_Witness ==
  /\ Len(appended) > LogMaxLines + 2
  /\ Len(logFile) = LogMaxLines
  /\ Len(LinesOf(1)) >= 2
  /\ Len(LinesOf(2)) >= 1
  /\ logFile[Len(logFile)].req = 1
  /\ logFile[Len(logFile) - 1].req = 2

(************************** the Kiro SSE output ****************************)
IsFinish(chunk) == chunk.data = "chunk" /\ chunk.finish_reason # "null"
IsToolChunk(chunk) == chunk.data = "chunk" /\ chunk.delta.tool_calls # NoToolCalls
FinishAt == {i \in DOMAIN enqueued : IsFinish(enqueued[i].chunk)}
DoneAt == {i \in DOMAIN enqueued : enqueued[i].chunk = Done}
ToolAt == {i \in DOMAIN enqueued : IsToolChunk(enqueued[i].chunk)}

\* C14: once the upstream reader has closed normally (read() has yielded
\* done), the output holds exactly one "data: [DONE]", as its last frame,
\* with a finish chunk somewhere before it, and nothing is emitted any more,
\* whenever the timer fires; no [DONE] is emitted before the reader closes.
C14_EndsWithDone ==
  /\ [](controller = "closed" =>
          /\ DoneAt = {Len(enqueued)}
          /\ \E i \in FinishAt : i < Len(enqueued))
  /\ [](controller # "closed" => DoneAt = {})
  /\ [][controller = "closed" => enqueued' = enqueued]_vars

\* The reader closed before the timer of a meteringEvent fired: the close
\* emitted the finish chunk and [DONE], and the timer then ran on the
\* closed stream.
C14_Witness ==
  /\ controller = "closed"
  /\ timer = "fired"
  /\ \E i \in FinishAt : enqueued[i].by = "close"
  /\ chunkIndex > 0

\* C15 as stated: the output holds at most one finish chunk, whose
\* finish_reason is tool_calls if a tool-call chunk came before it and stop
\* otherwise.
C15_AtMostOneFinishChunk ==
  /\ Cardinality(FinishAt) <= 1
  /\ \A i \in FinishAt :
       enqueued[i].chunk.finish_reason =
         IF \E j \in ToolAt : j < i THEN "tool_calls" ELSE "stop"

\* C15: every finish chunk's finish_reason is tool_calls if a toolUseEvent
\* was handled before it and stop otherwise; the timer and the close of the
\* reader emit a finish chunk only when none was emitted before, so that
\* the output holds at most one finish chunk more than the
\* messageStopEvents handled, and at most one if there was none.
C15_FinishChunks ==
  /\ \A i \in FinishAt :
       /\ enqueued[i].chunk.finish_reason =
            IF \E j \in ToolAt : j < i THEN "tool_calls" ELSE "stop"
       /\ enqueued[i].by \in {"timer", "close"} => \A j \in FinishAt : j >= i
  /\ Cardinality({i \in FinishAt : enqueued[i].by \in {"timer", "close"}}) <= 1

\* After a toolUseEvent and a meteringEvent the timer has emitted the
\* finish chunk, and a messageStopEvent that came later a second one.
C15_Witness ==
  \E i, j \in FinishAt :
    /\ i < j
    /\ enqueued[i].by = "timer"
    /\ enqueued[j].by = "frame"
    /\ enqueued[i].chunk.finish_reason = "tool_calls"

\* The frames of a byte stream, cut at their total lengths.
RECURSIVE SplitFrames(_)
SplitFrames(bytes) ==
  IF Len(bytes) < PreludeLen \/ getUint32(bytes, 0) < MinFrameLen THEN <<>>
  ELSE <<SliceBytes(bytes, 0, getUint32(bytes, 0))>>
         \o SplitFrames(SliceBytes(bytes, getUint32(bytes, 0), Len(bytes)))
\* The events handled so far, as the upstream sent them.
HandledEvents ==
  [i \in 1..framesParsed |-> parseEventFrame(SplitFrames(upstream.bytes)[i])]
\* The tool uses among them.
HandledToolUses ==
  LET ToolUse(event) == EventType(event) = "toolUseEvent" /\ event.payload.toolUseId # ""
      events == SelectSeq(HandledEvents, ToolUse)
  IN  [i \in DOMAIN events |-> events[i].payload]
\* tool_calls of the tool-call chunks emitted, in order
ToolCallsEmitted ==
  LET ToolChunk(item) == IsToolChunk(item.chunk)
      items == SelectSeq(enqueued, ToolChunk)
  IN  [i \in DOMAIN items |-> items[i].chunk.delta.tool_calls]

\* the position of the first use of the id of use i
FirstSighting(uses, i) ==
  CHOOSE j \in 1..i :
    /\ uses[j].toolUseId = uses[i].toolUseId
    /\ \A k \in 1..(j - 1) : uses[k].toolUseId # uses[i].toolUseId
\* the number of distinct ids seen before the id of use i was first seen
SightingRank(uses, i) ==
  Cardinality({uses[k].toolUseId : k \in 1..(FirstSighting(uses, i) - 1)})
\* what the claim asks of the uses from the i-th on
RECURSIVE ToolCallsAsked(_, _)
ToolCallsAsked(uses, i) ==
  IF i > Len(uses) THEN <<>>
  ELSE (IF FirstSighting(uses, i) = i
        THEN <<ToolStart(SightingRank(uses, i), uses[i].toolUseId, uses[i].name)>>
        ELSE <<>>)
       \o (IF uses[i].input.type # "undefined"
           THEN <<ToolArguments(SightingRank(uses, i), uses[i].input.text)>>
           ELSE <<>>)
       \o ToolCallsAsked(uses, i + 1)

\* C16: the tool-call chunks emitted are, use by use: a start chunk with
\* arguments "" for an id seen for the first time, carrying the number of
\* distinct ids seen before it (0, 1, 2, ...), then an argument chunk, if
\* the use has an input, carrying the index given to its id.
C16_ToolCallIndexes == ToolCallsEmitted = ToolCallsAsked(HandledToolUses, 1)

\* Two ids were seen and an argument chunk for the first came afterwards.
C16_Witness ==
  /\ Len(ToolCallsEmitted) = 4
  /\ ToolCallsEmitted[2] = ToolStart(1, "t2", "g")
  /\ ToolCallsEmitted[4] = ToolArguments(0, "{\"a\":1}")

\* C17: role "assistant" is in the delta of the first content or tool-call
\* chunk emitted and in the delta of no later one.
ContentOrToolAt ==
  {i \in DOMAIN enqueued : /\ enqueued[i].chunk.data = "chunk"
                           /\ enqueued[i].chunk.finish_reason = "null"}
C17_RoleOnFirstChunkOnly ==
  \A i \in ContentOrToolAt :
    (enqueued[i].chunk.delta.role = "assistant") <=> (\A j \in ContentOrToolAt : j >= i)

\* What the handlers emit for the frames of which every byte has been read.
RECURSIVE HandleFrames(_, _, _)
HandleFrames(run, frames, i) ==
  IF i > Len(frames) THEN run
  ELSE HandleFrames(HandleEvent(run, parseEventFrame(frames[i])), frames, i + 1)
FramesRead ==
  SelectSeq([i \in DOMAIN SplitFrames(upstream.bytes) |->
               [frame |-> SplitFrames(upstream.bytes)[i],
                end |-> Len(Concat(SubSeq(SplitFrames(upstream.bytes), 1, i)))]],
            LAMBDA f : f.end <= upstream.read)
ChunksAsked ==
  HandleFrames(Run(<<>>, 0, NewState, <<>>, FALSE, 0),
               [i \in DOMAIN FramesRead |-> FramesRead[i].frame], 1).out
ChunksOf(queue) == [i \in DOMAIN queue |-> queue[i].chunk]
FrameChunks == SelectSeq(enqueued, LAMBDA item : item.by = "frame")

\* C18: however the bytes are cut into reads, a frame is parsed when, and
\* only when, all its bytes have been read, the bytes of an unfinished
\* frame wait in the buffer, and the chunks the frame loop has emitted are
\* those the handlers give for the frames read so far, in their order: they
\* depend on the bytes read and not on where the reads ended.
C18_FramesIndependentOfReads ==
  /\ framesParsed = Len(FramesRead)
  /\ buffer = SliceBytes(upstream.bytes,
                         IF FramesRead = <<>> THEN 0
                         ELSE FramesRead[Len(FramesRead)].end,
                         upstream.read)
  /\ ChunksOf(FrameChunks) = ChunksOf(ChunksAsked)

\* A stream some read of which ended inside a frame has been parsed to its
\* end and closed.
C18_Witness ==
  /\ controller = "closed"
  /\ splitSeen
  /\ framesParsed = MaxSplitFrames
  /\ chunkIndex >= 2

(************************** provider connections ***************************)
ConnectionsOf(provider) ==
  {i \in 1..Len(providerConnections) :
     providerConnections[i].provider = provider}

\* C19: at every moment, however concurrent POST /api/providers requests
\* interleave, each OpenAI-compatible node has at most one provider
\* connection.
C19_OneConnectionPerNode ==
  \A node \in DOMAIN ProviderNodes : Cardinality(ConnectionsOf(node)) <= 1

\* The stores that differ from conns only in the values of secrets: every
\* secret that is stored takes the value the assignment gives its field.
WithSecrets(c, values) ==
  [f \in DOMAIN c |->
     IF f \in SecretFields /\ c[f] # Undefined THEN values[f] ELSE c[f]]
Variants(conns) ==
  {[i \in 1..Len(conns) |-> WithSecrets(conns[i], values)] :
     values \in [SecretFields -> SecretValues]}
GetAnswered ==
  /\ UNCHANGED <<providerConnections, posts>>
  /\ getResponse'.status = 200
PostAnswered(r) ==
  /\ posts[r].pc = "create"
  /\ posts'[r].response.status = 201

\* C20: no response of GET or POST /api/providers holds the value of a
\* secret of a connection (API key, access token, refresh token, id token or
\* another stored token): the body of a response is the one the handler
\* gives for every store that differs from the present one only in the
\* values of secrets.
C20_ResponsesIndependentOfSecrets ==
  [][/\ GetAnswered =>
          \A other \in Variants(providerConnections) :
            getResponse' = GETResponse(getProviderConnections(other), TRUE)
     /\ \A r \in Posts :
          PostAnswered(r) =>
            \A other \in Variants(providerConnections') :
              posts'[r].response.body =
                [connection |-> Json(Result(other[Len(other)]))]]_vars

(****************************** handleChat *********************************)
\* Request r is under way with an empty list of messages.
EmptyMessages(r) == pc[r] \notin {"start", "done"} /\ body[r].messages = <<>>

\* C30: a chat request whose messages list is empty is answered with status
\* 400 and no upstream call is made for it.
C30_EmptyMessagesRejected ==
  [][\A r \in Reqs :
       EmptyMessages(r) =>
         /\ pc'[r] # "execute"
         /\ (Returns(r) => response'[r].status = 400)]_vars

(************************* refreshCredentials ******************************)
\* The finished call had no refresh token, no refresh method, a token
\* endpoint that answered outside 200..299, or a call that raised.
RefreshUnanswered ==
  \/ Falsy(refresh.refreshToken)
  \/ refresh.provider \notin Refreshers
  \/ refresh.raised
  \/ refresh.status < 200
  \/ refresh.status > 299
AnswerOf(name) ==
  IF name \in DOMAIN refresh.tokens THEN refresh.tokens[name] ELSE Undefined

\* C23: refreshCredentials never throws; it returns null when the
\* credentials have no refresh token, the provider has no refresh method,
\* the token endpoint answers non-2xx or the call raises; on a 2xx answer
\* it returns the answer's access token and the answer's refresh token if
\* the answer has one (a non-empty string), the one that was sent if not.
C23_RefreshCredentials ==
  refresh.pc = "done" =>
    /\ refresh.outcome = "returned"
    /\ IF RefreshUnanswered
       THEN refresh.result.isNull
       ELSE LET names == TokenNames(refresh.provider)
            IN  /\ ~refresh.result.isNull
                /\ refresh.result.accessToken = AnswerOf(names.access)
                /\ refresh.result.refreshToken =
                     IF AnswerOf(names.refresh) \in {Undefined, Null, ""}
                     THEN refresh.refreshToken
                     ELSE AnswerOf(names.refresh)

\* A 2xx answer without a refresh token: the one sent is returned with the
\* new access token.
C23_Witness ==
  /\ refresh.pc = "done"
  /\ ~RefreshUnanswered
  /\ AnswerOf(TokenNames(refresh.provider).refresh) = Undefined
  /\ refresh.result.accessToken = "a1"
  /\ refresh.result.refreshToken = "r0"

(********************** buildUrl and buildHeaders **************************)
\* The request carries a streaming marker.
StreamingMarker(request) ==
  \/ includes(request.url, "streamGenerateContent")
  \/ /\ "Accept" \in DOMAIN request.headers
     /\ request.headers["Accept"] = SSE
MarkerIffStream ==
  \A stream \in BOOLEAN :
    built.requests[stream].built =>
      (StreamingMarker(built.requests[stream]) <=> stream)

\* C22 as stated: for every provider and model, of DefaultExecutor and of
\* KiroExecutor, the request built with stream = true carries a streaming
\* marker and the one built with stream = false carries none.
C22_MarkerIffStream ==
  built.executor \in {"default", "kiro"} => MarkerIffStream

\* C22: for every DefaultExecutor provider and model the request built with
\* stream = true carries a streaming marker and the one built with
\* stream = false carries none; KiroExecutor builds the same URL and, but
\* for the invocation id, the same headers for both values of stream.
C22_DefaultMarkerKiroSame ==
  /\ built.executor = "default" => MarkerIffStream
  /\ (/\ built.executor = "kiro"
      /\ built.requests[TRUE].built
      /\ built.requests[FALSE].built) =>
       LET a == built.requests[TRUE]
           b == built.requests[FALSE]
       IN  /\ a.url = b.url
           /\ DOMAIN a.headers = DOMAIN b.headers
           /\ \A name \in DOMAIN a.headers \ {"Amz-Sdk-Invocation-Id"} :
                a.headers[name] = b.headers[name]

\* Both requests of a Gemini executor are built: the marker is in one URL
\* and the other keeps the Accept header of its configuration.
C22_Witness ==
  /\ built.executor = "default"
  /\ built.provider = <<"gemini">>
  /\ built.requests[TRUE].built
  /\ built.requests[FALSE].built
  /\ includes(built.requests[TRUE].url, "streamGenerateContent")
  /\ "Accept" \in DOMAIN built.requests[FALSE].headers

(*************************** provider nodes *********************************)
\* The step builds the URL of a request for node i with its connection c.
BuildsFor(i, c, stream) ==
  /\ built' # built
  /\ providerConnections[c].provider = providerNodes.nodes[i].id
  /\ built'.provider = providerNodes.nodes[i].id
  /\ built'.credentials.providerSpecificData =
       providerConnections[c].providerSpecificData
  /\ built'.requests[stream].built

\* C21: the URL built for an OpenAI-compatible node is its connection's
\* base URL (OpenAI's when it has none) with one trailing slash removed,
\* followed by /responses when the node's current apiType is responses and
\* by /chat/completions when it is chat, after any sequence of node
\* creations and updates.
C21_PathFollowsApiType ==
  [][\A i \in DOMAIN providerNodes.nodes, c \in DOMAIN providerConnections,
        stream \in BOOLEAN :
       BuildsFor(i, c, stream) =>
         LET node == providerNodes.nodes[i]
             base == OrString(providerConnections[c].providerSpecificData.baseUrl,
                              OpenAIBaseUrl)
         IN  built'.requests[stream].url =
               StripSlash(base)
                 \o (IF node.apiType = "responses"
                     THEN <<"/responses">> ELSE <<"/chat/completions">>)]_vars

(************************** buildKiroPayload *******************************)
\* The user messages of the payload: item 0 is currentMessage, the others
\* are the user items of the history.
PayloadUserItems ==
  LET conversation == kiroPayload.conversationState
  IN  [h \in {0} \cup {i \in DOMAIN conversation.history :
                         conversation.history[i].kind = "user"} |->
         IF h = 0 THEN conversation.currentMessage
         ELSE conversation.history[h]]
\* The tool results the payload carries.
PayloadToolResults ==
  UNION {{PayloadUserItems[h].context.toolResults[k] :
            k \in DOMAIN PayloadUserItems[h].context.toolResults} :
         h \in DOMAIN PayloadUserItems}
ToolMessages ==
  {i \in DOMAIN kiroBody.messages :
     /\ kiroBody.messages[i].role = "tool"
     /\ kiroBody.messages[i].tool_call_id # <<>>}

\* C28: each message with role tool and a tool_call_id is represented in
\* the payload by a tool result whose toolUseId is that id and whose
\* content is the message's text: none is dropped.
C28_ToolMessagesKept ==
  kiroPayload.built =>
    \A i \in ToolMessages :
      \E toolResult \in PayloadToolResults :
        /\ toolResult.toolUseId = kiroBody.messages[i].tool_call_id
        /\ toolResult.content =
             <<[text |-> ContentText(kiroBody.messages[i].content)]>>

UserMessages ==
  {i \in DOMAIN kiroBody.messages : kiroBody.messages[i].role = "user"}
\* The places of the payload's user messages where the text of the request's
\* user message i stands.
PlacesOf(i) ==
  LET text == Txt("u", i)
  IN  UNION {{<<h, k>> :
                k \in {k \in DOMAIN PayloadUserItems[h].content :
                         /\ k < Len(PayloadUserItems[h].content)
                         /\ PayloadUserItems[h].content[k] = text[1]
                         /\ PayloadUserItems[h].content[k + 1] = text[2]}} :
             h \in DOMAIN PayloadUserItems}
ToolsCarried ==
  LET context == kiroPayload.conversationState.currentMessage.context
  IN  /\ context.hasTools
      /\ Len(context.tools) = Len(kiroBody.tools)
      /\ \A k \in DOMAIN kiroBody.tools :
           LET t == kiroBody.tools[k]
               s == context.tools[k].toolSpecification
           IN  /\ s.name = t.name
               /\ s.description \in {t.description, <<"Tool: ", t.name>>}
               /\ s.inputSchema.json = t.parameters

\* C29: for a request with tools and at least one user message, whatever
\* the order of its user and assistant messages, currentMessage carries one
\* toolSpecification per tool with its name, its description (Tool: <name>
\* for a blank one) and its schema, and each user message appears exactly
\* once across history and currentMessage.
C29_ToolsAndUsersOnce ==
  (/\ kiroPayload.built
   /\ Len(kiroBody.tools) > 0
   /\ UserMessages # {}) =>
    /\ ToolsCarried
    /\ \A i \in UserMessages : Cardinality(PlacesOf(i)) = 1

\* C24: cleanJSONSchemaForAntigravity is idempotent: given its own output,
\* for any schema (sub-schemas inside arrays or under anyOf/oneOf/allOf
\* included), it returns that output unchanged.
C24_Idempotent == [][cleaned # NoJson => cleaned' = cleaned]_vars

\* The schema nodes of a schema, itself included, at any depth: the values
\* of its keywords, the schemas of its properties and the elements of its
\* arrays. The object under "properties" is a map of names, not a node.
RECURSIVE SchemaNodes(_)
SchemaNodes(x) ==
  IF x.t = "arr" THEN UNION {SchemaNodes(x.a[i]) : i \in DOMAIN x.a}
  ELSE IF x.t = "obj"
  THEN {x} \cup UNION {IF k = "properties" /\ x.o[k].t = "obj"
                       THEN UNION {SchemaNodes(x.o[k].o[name]) :
                                     name \in DOMAIN x.o[k].o}
                       ELSE SchemaNodes(x.o[k]) :
                       k \in DOMAIN x.o}
  ELSE {}
Unsupported == {UNSUPPORTED_SCHEMA_CONSTRAINTS[i] :
                  i \in DOMAIN UNSUPPORTED_SCHEMA_CONSTRAINTS}
\* C25: in the output of cleanJSONSchemaForAntigravity no node at any
\* depth, nodes reached through array elements included, has a key of
\* UNSUPPORTED_SCHEMA_CONSTRAINTS.
C25_NoUnsupportedKey ==
  cleaned # NoJson =>
    \A node \in SchemaNodes(cleaned) :
      DOMAIN node.o \cap Unsupported = {}

\* The names of a node's required list are keys of its properties.
RequiredWithinProperties(node) ==
  \A i \in DOMAIN Prop(node, "required").a :
    /\ Prop(node, "properties").t = "obj"
    /\ Prop(node, "required").a[i].t = "str"
    /\ Prop(node, "required").a[i].s \in DOMAIN Prop(node, "properties").o
\* A node of type object has properties, and at least one.
ObjectHasProperties(node) ==
  IsString(Prop(node, "type"), "object") =>
    /\ Prop(node, "properties").t = "obj"
    /\ DOMAIN Prop(node, "properties").o # {}
\* C26 as stated: in the output of cleanJSONSchemaForAntigravity every name
\* of any required array is a key of the sibling properties, and every node
\* of type object has a non-empty properties.
C26_RequiredAndProperties ==
  cleaned # NoJson =>
    \A node \in SchemaNodes(cleaned) :
      /\ Prop(node, "required").t = "arr" => RequiredWithinProperties(node)
      /\ ObjectHasProperties(node)
\* C26 as the code has it: the required array of a node that has
\* properties names keys of those properties only, and every node of type
\* object has a non-empty properties; a required array with no properties
\* beside it is left as it was.
C26_RequiredWhereProperties ==
  cleaned # NoJson =>
    \A node \in SchemaNodes(cleaned) :
      /\ (Prop(node, "required").t = "arr" /\ Truthy(Prop(node, "properties")))
           => RequiredWithinProperties(node)
      /\ ObjectHasProperties(node)
\* A required list of three names was cut down to the one that is a
\* property, and an object with no properties was given the reason property.
C26_Witness ==
  /\ cleaned # NoJson
  /\ Prop(schema, "required").t = "arr"
  /\ Len(Prop(schema, "required").a) = 3
  /\ Prop(cleaned, "required") = JArr(<<JStr("a")>>)
  /\ \E node \in SchemaNodes(schema) :
       /\ IsString(Prop(node, "type"), "object")
       /\ ~Truthy(Prop(node, "properties"))
  /\ \E node \in SchemaNodes(cleaned) :
       /\ Prop(node, "properties") = ReasonProperty
       /\ Prop(node, "required") = JArr(<<JStr("reason")>>)

\* The node of a schema that a path leads to: through items, through the
\* first element of a list of items, through the property a.
SchemaSteps == {"items", "items[0]", "a"}
SchemaPaths == {<<>>} \cup {<<f>> : f \in SchemaSteps}
                 \cup {<<f, g>> : f \in SchemaSteps, g \in SchemaSteps}
RECURSIVE NodeAt(_, _)
NodeAt(x, path) ==
  IF Len(path) = 0 THEN x
  ELSE LET items == Prop(x, "items")
           next ==
             IF Head(path) = "items" THEN items
             ELSE IF Head(path) = "a" THEN Prop(Prop(x, "properties"), "a")
             ELSE IF items.t = "arr" /\ Len(items.a) > 0 THEN items.a[1]
             ELSE NoJson
       IN  NodeAt(next, Tail(path))
ThroughArray(path) == \E i \in DOMAIN path : path[i] = "items[0]"
\* object > array > scalar, for a branch that says its type
Rank(branch) ==
  IF IsString(Prop(branch, "type"), "object") THEN 3
  ELSE IF IsString(Prop(branch, "type"), "array") THEN 2
  ELSE 1
NonNullBranches(node, key) ==
  SelectSeq(Prop(node, key).a, LAMBDA b : ~IsString(Prop(b, "type"), "null"))
\* The first of the non-null branches of the highest rank.
BestBranch(node, key) ==
  LET branches == NonNullBranches(node, key)
  IN  branches[CHOOSE i \in DOMAIN branches :
                 /\ \A j \in DOMAIN branches :
                      Rank(branches[j]) <= Rank(branches[i])
                 /\ \A j \in DOMAIN branches :
                      j < i => Rank(branches[j]) < Rank(branches[i])]
\* The node has key (anyOf or oneOf) and not the other one, with a
\* non-null branch, and every non-null branch says its type.
HasBranches(node, key) ==
  /\ node.t = "obj"
  /\ DOMAIN node.o \cap {"anyOf", "oneOf"} = {key}
  /\ Prop(node, key).t = "arr"
  /\ Len(NonNullBranches(node, key)) > 0
  /\ \A i \in DOMAIN NonNullBranches(node, key) :
       Prop(NonNullBranches(node, key)[i], "type").t = "str"
\* The output node has the type of the best branch.
BestBranchChosen ==
  \A path \in SchemaPaths : \A key \in {"anyOf", "oneOf"} :
    HasBranches(NodeAt(schema, path), key) =>
      Prop(NodeAt(cleaned, path), "type")
        = Prop(BestBranch(NodeAt(schema, path), key), "type")
NoBranchesLeft(path) ==
  (NodeAt(schema, path).t = "obj"
     /\ DOMAIN NodeAt(schema, path).o \cap {"anyOf", "oneOf"} # {})
    => DOMAIN NodeAt(cleaned, path).o \cap {"anyOf", "oneOf"} = {}
StringOrNull ==
  schema = Keyed("anyOf", JArr(<<Typed("string"), Typed("null")>>))
    => cleaned = Typed("string")
C32_SseOnlyForStreamTrue ==
  \A r \in Reqs :
    result[r].response.kind = "sse" => body[r].flag = "true"
\* C32: handleChatCore returns a Server-Sent-Events response only when the
\* body's stream flag is not false, that is for stream: true and for a
\* body that does not set the flag, and a single JSON response only for
\* stream: false.
C32_SseUnlessStreamFalse ==
  \A r \in Reqs :
    /\ result[r].response.kind = "sse" => body[r].flag # "false"
    /\ result[r].response.kind = "json" => body[r].flag = "false"
\* A body that does not set the flag was answered with an event stream.
C32_Witness ==
  \E r \in Reqs :
    /\ body[r].flag = "absent"
    /\ result[r].success
    /\ result[r].response.kind = "sse"

\* The rate of a category in USD per million tokens, an optional rate
\* that is missing being replaced by the input or output rate.
Rate(pricing, c) ==
  CASE c = "prompt" -> pricing.input
    [] c = "cached" -> IF pricing.cached # 0 THEN pricing.cached ELSE pricing.input
    [] c = "completion" -> pricing.output
    [] c = "reasoning" ->
         IF pricing.reasoning # 0 THEN pricing.reasoning ELSE pricing.output
    [] OTHER ->
         IF pricing.cache_creation # 0 THEN pricing.cache_creation
         ELSE pricing.input
\* calculateCost has just been called with one category raised.
RaisedNow == raised'.count = raised.count + 1
\* The cost is 0 when every count is 0 or no pricing entry was found.
ZeroCost ==
  (cost.called /\ (costInput.counts = NoCounts \/ costPricing.kind # "found"))
    => cost.value = 0
\* C33 as stated: the cost is 0 for all-zero counts and without a pricing
\* entry, and raising any one category by k tokens raises the cost by k
\* times the rate of that category.
C33_LinearInEveryCategory ==
  [][/\ ZeroCost'
     /\ (RaisedNow /\ costPricing.kind = "found")
          => cost'.value - cost.value
               = raised'.by * Rate(costPricing, raised'.category)]_vars
\* C33: the cost is 0 for all-zero counts and without a pricing entry;
\* raising completion, reasoning or cache-creation tokens by k raises the
\* cost by k times the category's rate; raising prompt tokens by k does so
\* while the prompt count is at least the cached count; and raising cached
\* tokens by k changes the cost by k times (cached rate minus input rate)
\* while the cached count stays within the prompt count, and by k times
\* the cached rate once it is at or above the prompt count.
C33_LinearOutsideCacheOverlap ==
  [][/\ ZeroCost'
     /\ (RaisedNow /\ costPricing.kind = "found")
          => LET c == raised'.category
                 k == raised'.by
                 prompt == costInput.counts["prompt"]
                 cachedCount == costInput.counts["cached"]
                 diff == cost'.value - cost.value
             IN  /\ c \in {"completion", "reasoning", "cache_creation"}
                      => diff = k * Rate(costPricing, c)
                 /\ (c = "prompt" /\ prompt >= cachedCount)
                      => diff = k * costPricing.input
                 /\ (c = "prompt" /\ prompt + k <= cachedCount) => diff = 0
                 /\ (c = "cached" /\ cachedCount + k <= prompt)
                      => diff = k * (Rate(costPricing, c) - costPricing.input)
                 /\ (c = "cached" /\ cachedCount >= prompt)
                      => diff = k * Rate(costPricing, c)]_vars
\* Raising the cached tokens of an entry lowered its cost.
C33_Witness ==
  /\ costPricing.kind = "found"
  /\ raised.category = "cached"
  /\ cost.value < raised.before

\* The body of the non-streaming response has been read and its usage
\* extracted.
UsageExtracted(r) ==
  \E i \in DOMAIN core[r].events : core[r].events[i] = "json"
\* C34: for a non-streaming response in Claude shape (usage with
\* input_tokens = a and output_tokens = b and no prompt_tokens or
\* completion_tokens) the usage extracted has prompt_tokens = a and
\* completion_tokens = b and the cache read and creation counts of the
\* body; for the OpenAI and Gemini shapes it has the counts of those shapes.
C34_UsageOfEveryShape ==
  \A r \in Reqs :
    UsageExtracted(r) =>
      LET usage == core[r].jsonBody.usage
          metadata == core[r].jsonBody.usageMetadata
          extracted == core[r].usage
      IN  /\ (usage.present /\ usage.prompt_tokens = Undef
                /\ usage.completion_tokens = Undef
                /\ usage.input_tokens # Undef /\ usage.output_tokens # Undef)
               => /\ ~extracted.isNull
                  /\ extracted.prompt_tokens = usage.input_tokens
                  /\ extracted.completion_tokens = usage.output_tokens
                  /\ extracted.cache_read_input_tokens
                       = usage.cache_read_input_tokens
                  /\ extracted.cache_creation_input_tokens
                       = usage.cache_creation_input_tokens
          /\ (usage.present /\ usage.prompt_tokens # Undef)
               => /\ extracted.prompt_tokens = usage.prompt_tokens
                  /\ extracted.completion_tokens = OrZero(usage.completion_tokens)
          /\ (~usage.present /\ metadata.present)
               => /\ extracted.prompt_tokens = OrZero(metadata.promptTokenCount)
                  /\ extracted.completion_tokens
                       = OrZero(metadata.candidatesTokenCount)

\* C35 as stated: within one handleSingleModelChat call no connection is
\* attempted more than once, so that the account loop makes at most as
\* many attempts as the provider has connections.
C35_NoConnectionTwice ==
  \A r \in Reqs :
    /\ \A i, j \in DOMAIN attempts[r].conns :
         attempts[r].conns[i] = attempts[r].conns[j] => i = j
    /\ Len(attempts[r].conns) <= NumConns

\* C35: within one handleSingleModelChat call a connection is attempted a
\* second time only once the cooldown of its mark is over: only the
\* connection that failed last is excluded by id, so that a connection
\* whose cooldown ends while a later attempt is under way is selected
\* again, and the number of attempts is not bounded by the number of
\* connections.
C35_TwiceOnlyAfterCooldown ==
  [][\A r \in Reqs : \A c \in Conns :
       (/\ attempts'[r].conns = Append(attempts[r].conns, c)
        /\ \E i \in DOMAIN attempts[r].conns : attempts[r].conns[i] = c)
         => /\ markedUntil[c] <= now
            /\ excludeConnectionId[r] # c]_vars
\* The first connection is attempted a second time, after the second one.
C35_Witness ==
  \E r \in Reqs :
    /\ Len(attempts[r].conns) > NumConns
    /\ attempts[r].conns[1] = attempts[r].conns[3]
    /\ attempts[r].conns[2] = excludeConnectionId[r]
    /\ markedUntil[attempts[r].conns[1]] > 0

\* C36: after an attempt has ended with 499 because the client aborted
\* the request, handleSingleModelChat starts no further account attempt:
\* it goes to no further credential selection.
C36_NoAttemptAfterAbort ==
  [][\A r \in Reqs :
       (pc[r] = "decide" /\ ~result[r].success /\ result[r].status = 499)
         => pc'[r] # "select"]_vars

\* C37: when several saveRequestUsage calls run concurrently before the
\* usage database has been loaded, usage.json is read once, and once all
\* calls have finished the persisted history holds every entry that was
\* on disk before and every entry saved.
C37_NothingLost ==
  /\ usageLoad.reads <= 1
  /\ (\A i \in Savers : savers[i].pc = "done") =>
       LET persisted == PersistedHistory(usageFile)
       IN  /\ \A k \in DOMAIN usageLoad.before :
                \E n \in DOMAIN persisted : persisted[n] = usageLoad.before[k]
           /\ \A i \in Savers :
                \E n \in DOMAIN persisted : persisted[n] = SaverEntry(i)

\* controller.enqueue is called in this step: a chunk joins the output, or
\* the call of the timer's callback is refused.
EnqueueCalled ==
  enqueued' # enqueued \/ (timer' = "threw" /\ timer # "threw")
\* C38: the Kiro SSE stream never enqueues a chunk after it has been
\* closed, errored or cancelled: every enqueue call is made on an open
\* stream, that of the 100 ms timer of a meteringEvent or
\* contextUsageEvent included.
C38_NoEnqueueUnlessOpen ==
  [][EnqueueCalled => controller = "open"]_vars

\* A chunk that carries content.
IsContentChunk(chunk) == chunk.data = "chunk" /\ chunk.delta.content # ""
\* C39: in the Kiro SSE output no content chunk and no tool-call chunk
\* comes after a finish chunk (a chunk with a finish_reason), whatever the
\* order of the upstream events and whenever the 100 ms timer fires.
C39_NothingAfterFinish ==
  \A i \in FinishAt : \A j \in DOMAIN enqueued :
    j > i => /\ ~IsContentChunk(enqueued[j].chunk)
             /\ ~IsToolChunk(enqueued[j].chunk)

\* The status of the first upstream response of the invocation, 0 when
\* there is none.
FirstStatus(r) ==
  IF \E st \in {401, 403} :
       \E i \in DOMAIN Events(r) :
         /\ Events(r)[i] = ResponseEvent(Reply("response", st, NoText, 0))
         /\ \A j \in Positions(Events(r), "execute") : j >= i - 1
  THEN CHOOSE st \in {401, 403} :
         \E i \in DOMAIN Events(r) :
           /\ Events(r)[i] = ResponseEvent(Reply("response", st, NoText, 0))
           /\ \A j \in Positions(Events(r), "execute") : j >= i - 1
  ELSE 0
\* C40: when the first upstream response is 401 or 403 and the request
\* executed again after a successful refresh is not ok or throws, the
\* error result of handleChatCore carries the status and the message of
\* the first response, and the new credentials have been stored through
\* onCredentialsRefreshed before.
C40_FirstErrorAfterFailedRetry ==
  \A r \in Reqs :
    (pc[r] = "decide" /\ ~result[r].success /\ SecondExecute(r) # {}) =>
      LET c == credentials[r].connectionId
          message == formatProviderError(ShortMessage, FirstStatus(r))
      IN  /\ FirstStatus(r) \in {401, 403}
          /\ result[r].status = FirstStatus(r)
          /\ result[r].error = message
          /\ result[r].response = ErrorResponse(FirstStatus(r), message)
          /\ Count(Events(r), "onCredentialsRefreshed") = 1
          /\ connections[c] = onCredentialsRefreshed(connections, credentials[r])[c]
\* The first response was 401, the refresh succeeded, and the request
\* executed again was answered with 500: the result is the 401.
C40_Witness ==
  \E r \in Reqs :
    /\ pc[r] = "decide"
    /\ SecondExecute(r) # {}
    /\ Events(r)[Len(Events(r)) - 2] = ResponseEvent(Reply("response", 500, NoText, 0))
    /\ result[r].status = 401
    /\ connections[credentials[r].connectionId].accessToken = "refreshed"
====
